---- MODULE Spec2Model ----
(***************************************************************************)
(* Model of the tool-call sandbox of dgx_spark: the session storage        *)
(* manager (storage.py), the sandbox executor (executor.py), the tool      *)
(* loader (tool_loader.py) and the HTTP routes (server.py); and of the     *)
(* services beside it: the authentication middleware (shared/auth.py) and  *)
(* the model manager (model-manager/server.py).                            *)
(*                                                                         *)
(* Strings whose characters matter (paths, session ids) are sequences of   *)
(* one-character strings, so that prefix tests and normalisation act on    *)
(* characters as the Python code does.                                     *)
(***************************************************************************)
EXTENDS Integers, Sequences, FiniteSets, TLC

VARIABLES
    sessions,   \* StorageManager.sessions: session id -> Session record
    fsDirs,     \* directories that exist on the host filesystem
    fsFiles,    \* regular files on the host filesystem: path -> content
    lastOp,     \* the last storage file operation: its input, result and fs calls
    req,        \* per invocation: how it was issued, its tool and its args
    pc,         \* per invocation: position in server.execute_tool / executor.execute
    container,  \* per invocation: state of the container it launched
    launchCfg,  \* per invocation: the container_config passed to containers.run
    trace,      \* per invocation: what execute did (launches, removals, facts about the run)
    result,     \* per invocation: the ExecutionResult / HTTP outcome returned
    loop,       \* the invocation whose handler occupies the server's event loop (0: none)
    now,        \* datetime.now(), in units of the session TTL
    thr,        \* per thread calling the StorageManager: its call, position and outcome
    lock,       \* StorageManager.lock: the thread that holds it (0: free)
    allocs,     \* per session id: how many Session objects have been constructed for it
    tool_files, \* the TOOL.md files of the tools directory, in discovery order
    loader_tools, \* ToolLoader.tools: name -> ToolDefinition
    load,       \* the load_all call: its position, the files left, the map it replaced
    lookup,     \* the last lookup made on the loader and what it returned
    clock,      \* time.time() as the auth middleware reads it
    rate_limits, \* auth._rate_limits: client ip -> list of (timestamp, count)
    admitted,   \* per client ip and time: the requests the rate limiter let through
    lastReq,    \* the last request AuthMiddleware.dispatch handled and its outcome
    starting_models, \* model-manager _starting_models: model id -> startup info
    starting_lock,   \* model-manager _starting_lock: who holds it across an await
    cache,      \* model-manager _cache: the status list kept and its timestamp
    cache_lock, \* model-manager _cache["lock"]: the request that holds it (0: free)
    docker,     \* per model: the state of its container as docker ps reports it
    history,    \* the container changes made so far and those whose request returned
    task,       \* per request of the model manager: its handler, position and locals
    health,     \* health_check_loop: its position and the models of this round
    mtime       \* time.time() as the model manager reads it

fileVars == <<sessions, fsDirs, fsFiles, lastOp>>
execVars == <<req, pc, container, launchCfg, trace, result, loop>>
threadVars == <<thr, lock, allocs>>
\* everything the storage manager owns
storageVars == <<sessions, fsDirs, fsFiles, lastOp, now, thr, lock, allocs>>
loaderVars == <<tool_files, loader_tools, load, lookup>>
authVars == <<clock, rate_limits, admitted, lastReq>>
managerVars == <<starting_models, starting_lock, cache, cache_lock, docker, history, task,
                 health, mtime>>
\* the services beside the sandbox: shared/auth.py and model-manager/server.py
serviceVars == <<authVars, managerVars>>
vars == <<sessions, fsDirs, fsFiles, lastOp, req, pc, container, launchCfg, trace, result, loop,
          now, thr, lock, allocs, tool_files, loader_tools, load, lookup, serviceVars>>

----------------------------------------------------------------------------
(* Bounds of the model *)

\* number of path segments of a path string given to a file operation
MaxSegs == 2
\* number of regular files the modelled filesystem may hold
MaxFiles == 1
\* number of concurrent HTTP requests in the server specification
MaxReq == 2
\* number of threads calling the storage manager concurrently
MaxThreads == 2
\* the clock runs from 0 to MaxTime
MaxTime == 2
\* number of Session objects constructed for one id in the concurrent specifications
MaxAllocs == 2
\* number of requests the model manager handles concurrently
MaxCoroutines == 2
\* number of start_model / stop_model requests made to the model manager
MaxManagerCalls == 2
\* the model manager's clock runs from 0 to MaxMTime
MaxMTime == 4

----------------------------------------------------------------------------
(* Character strings *)

SLASH == "/"

\* str.startswith
StartsWith(s, p) ==
    /\ Len(p) <= Len(s)
    /\ SubSeq(s, 1, Len(p)) = p

\* str.lstrip("/")
RECURSIVE LStripSlash(_)
LStripSlash(s) ==
    IF s # <<>> /\ Head(s) = SLASH THEN LStripSlash(Tail(s)) ELSE s

\* str.split("/"): the segments between separators (n separators give n+1 segments)
RECURSIVE SplitFrom(_, _, _)
SplitFrom(s, cur, acc) ==
    IF s = <<>> THEN Append(acc, cur)
    ELSE IF Head(s) = SLASH THEN SplitFrom(Tail(s), <<>>, Append(acc, cur))
    ELSE SplitFrom(Tail(s), Append(cur, Head(s)), acc)

Split(s) == SplitFrom(s, <<>>, <<>>)

\* "/".join(comps)
RECURSIVE Join(_)
Join(comps) ==
    IF comps = <<>> THEN <<>>
    ELSE IF Len(comps) = 1 THEN comps[1]
    ELSE comps[1] \o <<SLASH>> \o Join(Tail(comps))

DOT == <<".">>
DOTDOT == <<".", ".">>

\* the component loop of posixpath.normpath
RECURSIVE NormComps(_, _, _)
NormComps(comps, new, initial_slashes) ==
    IF comps = <<>> THEN new
    ELSE LET comp == Head(comps)
             rest == Tail(comps)
         IN IF comp = <<>> \/ comp = DOT
            THEN NormComps(rest, new, initial_slashes)
            ELSE IF \/ comp # DOTDOT
                    \/ (initial_slashes = 0 /\ new = <<>>)
                    \/ (new # <<>> /\ new[Len(new)] = DOTDOT)
            THEN NormComps(rest, Append(new, comp), initial_slashes)
            ELSE IF new # <<>>
            THEN NormComps(rest, SubSeq(new, 1, Len(new) - 1), initial_slashes)
            ELSE NormComps(rest, new, initial_slashes)

\* os.path.normpath (POSIX)
normpath(path) ==
    IF path = <<>> THEN DOT
    ELSE LET initial_slashes ==
                 IF ~StartsWith(path, <<SLASH>>) THEN 0
                 ELSE IF StartsWith(path, <<SLASH, SLASH>>)
                         /\ ~StartsWith(path, <<SLASH, SLASH, SLASH>>) THEN 2
                 ELSE 1
             joined == Join(NormComps(Split(path), <<>>, initial_slashes))
             out == IF initial_slashes = 2 THEN <<SLASH, SLASH>> \o joined
                    ELSE IF initial_slashes = 1 THEN <<SLASH>> \o joined
                    ELSE joined
         IN IF out = <<>> THEN DOT ELSE out

\* os.path.join(a, b) (POSIX)
pathjoin(a, b) ==
    IF StartsWith(b, <<SLASH>>) THEN b
    ELSE IF a = <<>> \/ a[Len(a)] = SLASH THEN a \o b
    ELSE a \o <<SLASH>> \o b

\* os.path.dirname (POSIX): everything up to the last separator, trailing separators dropped
RECURSIVE RStripSlash(_)
RStripSlash(s) ==
    IF s # <<>> /\ s[Len(s)] = SLASH THEN RStripSlash(SubSeq(s, 1, Len(s) - 1)) ELSE s

RECURSIVE LastSlash(_, _)
LastSlash(s, i) ==
    IF i = 0 THEN 0 ELSE IF s[i] = SLASH THEN i ELSE LastSlash(s, i - 1)

dirname(p) ==
    LET i == LastSlash(p, Len(p))
        head == SubSeq(p, 1, i)
    IN IF head # <<>> /\ RStripSlash(head) # <<>> THEN RStripSlash(head) ELSE head

\* p is the directory root or lies below it (component-wise containment)
Within(p, root) ==
    \/ p = root
    \/ StartsWith(p, root \o <<SLASH>>)

\* the proper ancestors of an absolute normalised path, the root directory included
Ancestors(p) ==
    {<<SLASH>>} \cup {SubSeq(p, 1, i - 1) : i \in {j \in 2..Len(p) : p[j] = SLASH}}

----------------------------------------------------------------------------
(* storage.py: the session table and the workspace file operations *)

\* StorageManager.base_workspace ("/tmp/sandbox_workspaces", shortened)
base_workspace == <<"/", "t", "/", "w">>

\* the session ids callers use; the second has the first as a string prefix
SessionIds == {<<"a">>, <<"a", "b">>}

\* the segments path strings are built from: empty (a leading, trailing or doubled
\* separator), ".", "..", and two names
PathSegs == {<<>>, DOT, DOTDOT, <<"a">>, <<"a", "b">>}

\* the path strings given to the file operations: the empty string, and every
\* "/"-joined string of 1..MaxSegs segments
Paths ==
    {<<>>} \cup {Join(segs) : segs \in UNION {[1..n -> PathSegs] : n \in 1..MaxSegs}}

Contents == {"c1"}

\* Python's None, for an Optional[str] whose strings are character sequences
None == <<"None">>

\* base_workspace / session_id for a session id that is a plain name
WorkspaceOf(session_id) == base_workspace \o <<SLASH>> \o session_id

\* _safe_path: the location a path string names, before the containment test
full_path_of(workspace, path) ==
    IF path = <<>> THEN workspace
    ELSE normpath(pathjoin(workspace, LStripSlash(path)))

\* _safe_path with the containment test left out
safe_path_unchecked(workspace, path) == full_path_of(workspace, path)

\* StorageManager._safe_path
safe_path(workspace, path) ==
    IF path = <<>> THEN workspace
    ELSE LET full_path == full_path_of(workspace, path)
         IN IF ~StartsWith(full_path, normpath(workspace)) THEN None
            ELSE full_path

\* _safe_path tabulated over the workspaces and path strings of the model (each
\* entry is one call of _safe_path; the table only avoids recomputing it)
SafePathOf ==
    [w \in {WorkspaceOf(s) : s \in SessionIds} |-> [p \in Paths |-> safe_path(w, p)]]

\* a filesystem call: the function and the path it is applied to
FsCall(fn, target) == [fn |-> fn, target |-> target]

\* the result of one file operation, with the filesystem calls it made
OpResult(op, session_id, path, resolved, success, error, content, calls) ==
    [op |-> op, session |-> session_id, path |-> path, resolved |-> resolved,
     success |-> success, error |-> error, content |-> content,
     listing |-> [files |-> {}, directories |-> {}], calls |-> calls]

\* the result of a successful file_list
ListResult(session_id, path, resolved, files, directories, calls) ==
    [op |-> "file_list", session |-> session_id, path |-> path, resolved |-> resolved,
     success |-> TRUE, error |-> "", content |-> "",
     listing |-> [files |-> files, directories |-> directories], calls |-> calls]

NoOp == OpResult("none", <<>>, <<>>, None, FALSE, "", "", {})

\* StorageManager.get_or_create_session: Path.mkdir(parents=True, exist_ok=True)
\* raises FileExistsError when the workspace path is an existing regular file
SessionMkdirFails(session_id) ==
    /\ session_id \notin DOMAIN sessions
    /\ WorkspaceOf(session_id) \in DOMAIN fsFiles

\* StorageManager.session_ttl: timedelta(hours=24), one unit of the clock
session_ttl == 1

Threads == 1..MaxThreads

\* a thread that is not inside a call of the storage manager
NoCall == [op |-> "none", id |-> <<>>, pc |-> "idle", todo |-> {}, ret |-> 0,
           error |-> "", at |-> 0]

\* a dict without keys
EmptyDict == [k \in {} |-> ""]

\* Session(session_id, created_at, workspace_dir, data={"default": {}}), db_path None
Session(session_id, created_at, workspace) ==
    [session_id |-> session_id, created_at |-> created_at, workspace_dir |-> workspace,
     data |-> ("default" :> EmptyDict), db_path |-> None]

\* get_or_create_session replacing a session older than the TTL when it is used
SessionsAfterGet_expiring(session_id) ==
    IF session_id \in DOMAIN sessions /\ now - sessions[session_id].created_at <= session_ttl
    THEN sessions
    ELSE (session_id :> Session(session_id, now, WorkspaceOf(session_id))) @@ sessions

SessionsAfterGet(session_id) ==
    IF session_id \in DOMAIN sessions THEN sessions
    ELSE sessions @@ (session_id :> Session(session_id, now, WorkspaceOf(session_id)))

DirsAfterGet(session_id) ==
    IF session_id \in DOMAIN sessions THEN fsDirs
    ELSE fsDirs \cup {WorkspaceOf(session_id)} \cup Ancestors(WorkspaceOf(session_id))

CallsOfGet(session_id) ==
    IF session_id \in DOMAIN sessions THEN {}
    ELSE {FsCall("mkdir", WorkspaceOf(session_id))}

\* the exception of get_or_create_session leaves the operation through its caller
RaisedInGet(op, session_id, path) ==
    /\ SessionMkdirFails(session_id)
    /\ lastOp' = OpResult(op, session_id, path, None, FALSE, "raised FileExistsError", "",
                          CallsOfGet(session_id))
    /\ UNCHANGED <<sessions, fsDirs, fsFiles>>

\* some proper ancestor directory of p is a regular file
BlockedByFile(p) == \E q \in Ancestors(p) : q \in DOMAIN fsFiles

\* StorageManager.file_write
file_write(session_id, path, content) ==
    \/ RaisedInGet("file_write", session_id, path)
    \/ /\ ~SessionMkdirFails(session_id)
       /\ sessions' = SessionsAfterGet(session_id)
       /\ LET sp == SafePathOf[sessions'[session_id].workspace_dir][path]
              dirs0 == DirsAfterGet(session_id)
              calls0 == CallsOfGet(session_id)
              parent == dirname(sp)
          IN IF sp = None
             THEN /\ lastOp' = OpResult("file_write", session_id, path, None, FALSE,
                                        "Invalid path", "", calls0)
                  /\ fsDirs' = dirs0
                  /\ UNCHANGED fsFiles
             ELSE IF BlockedByFile(sp) \/ parent \in DOMAIN fsFiles
             THEN \* os.makedirs raises: a component of the parent is a regular file
                  /\ lastOp' = OpResult("file_write", session_id, path, sp, FALSE,
                                        "OSError", "",
                                        calls0 \cup {FsCall("makedirs", parent)})
                  /\ fsDirs' = dirs0
                  /\ UNCHANGED fsFiles
             ELSE IF sp \in dirs0
             THEN \* open(..., 'w') raises IsADirectoryError
                  /\ lastOp' = OpResult("file_write", session_id, path, sp, FALSE,
                                        "OSError", "",
                                        calls0 \cup {FsCall("makedirs", parent),
                                                     FsCall("open_w", sp)})
                  /\ fsDirs' = dirs0 \cup {parent} \cup Ancestors(parent)
                  /\ UNCHANGED fsFiles
             ELSE /\ sp \in DOMAIN fsFiles \/ Cardinality(DOMAIN fsFiles) < MaxFiles
                  /\ lastOp' = OpResult("file_write", session_id, path, sp, TRUE, "",
                                        content,
                                        calls0 \cup {FsCall("makedirs", parent),
                                                     FsCall("open_w", sp)})
                  /\ fsDirs' = dirs0 \cup {parent} \cup Ancestors(parent)
                  /\ fsFiles' = [q \in DOMAIN fsFiles \cup {sp} |->
                                    IF q = sp THEN content ELSE fsFiles[q]]

\* StorageManager.file_read
file_read(session_id, path) ==
    \/ RaisedInGet("file_read", session_id, path)
    \/ /\ ~SessionMkdirFails(session_id)
       /\ sessions' = SessionsAfterGet(session_id)
       /\ fsDirs' = DirsAfterGet(session_id)
       /\ UNCHANGED fsFiles
       /\ LET sp == SafePathOf[sessions'[session_id].workspace_dir][path]
              calls0 == CallsOfGet(session_id)
          IN lastOp' =
               IF sp = None
               THEN OpResult("file_read", session_id, path, None, FALSE,
                             "Invalid path", "", calls0)
               ELSE IF sp \in DOMAIN fsFiles
               THEN OpResult("file_read", session_id, path, sp, TRUE, "", fsFiles[sp],
                             calls0 \cup {FsCall("open_r", sp)})
               ELSE IF sp \in fsDirs' \/ BlockedByFile(sp)
               THEN \* IsADirectoryError / NotADirectoryError
                    OpResult("file_read", session_id, path, sp, FALSE, "OSError", "",
                             calls0 \cup {FsCall("open_r", sp)})
               ELSE OpResult("file_read", session_id, path, sp, FALSE, "File not found",
                             "", calls0 \cup {FsCall("open_r", sp)})

\* the names directly inside directory d
Children(d, paths) == {p \in paths : p # d /\ Len(p) > 1 /\ dirname(p) = d}

\* StorageManager.file_list
file_list(session_id, path) ==
    \/ RaisedInGet("file_list", session_id, path)
    \/ /\ ~SessionMkdirFails(session_id)
       /\ sessions' = SessionsAfterGet(session_id)
       /\ fsDirs' = DirsAfterGet(session_id)
       /\ UNCHANGED fsFiles
       /\ LET sp == SafePathOf[sessions'[session_id].workspace_dir][path]
              calls0 == CallsOfGet(session_id)
          IN lastOp' =
               IF sp = None
               THEN OpResult("file_list", session_id, path, None, FALSE,
                             "Invalid path", "", calls0)
               ELSE IF sp \in DOMAIN fsFiles
               THEN \* os.scandir raises NotADirectoryError
                    OpResult("file_list", session_id, path, sp, FALSE, "OSError", "",
                             calls0 \cup {FsCall("exists", sp), FsCall("scandir", sp)})
               ELSE IF sp \notin fsDirs'
               THEN ListResult(session_id, path, sp, {}, {},
                               calls0 \cup {FsCall("exists", sp)})
               ELSE ListResult(session_id, path, sp, Children(sp, DOMAIN fsFiles),
                               Children(sp, fsDirs'),
                               calls0 \cup {FsCall("exists", sp), FsCall("scandir", sp)})

FileWrite ==
    /\ \E s \in SessionIds, p \in Paths, c \in Contents : file_write(s, p, c)
    /\ UNCHANGED <<execVars, loaderVars, serviceVars, now, threadVars>>

FileRead ==
    /\ \E s \in SessionIds, p \in Paths : file_read(s, p)
    /\ UNCHANGED <<execVars, loaderVars, serviceVars, now, threadVars>>

FileList ==
    /\ \E s \in SessionIds, p \in Paths : file_list(s, p)
    /\ UNCHANGED <<execVars, loaderVars, serviceVars, now, threadVars>>

----------------------------------------------------------------------------
(* tool_loader.py / executor.py / server.py: tools, arguments, the security screen *)

Reqs == 1..MaxReq

\* the names of the tools; "custom_tool" stands for a loaded tool for which
\* _build_command has no branch
ToolNames ==
    {"code_execution", "bash_command", "file_analysis", "web_fetch", "data_storage",
     "custom_tool"}

\* SandboxConfig: the fields that decide the container's isolation vary, the
\* resource fields keep their defaults
SandboxConfigs ==
    [image : {"sandbox-executor:latest"}, timeout : {30}, memory : {"256m"},
     cpu_percent : {50}, network : BOOLEAN, read_only : BOOLEAN,
     mount_workspace : BOOLEAN]

\* the parameter a tool's descriptor may mark required
PrimaryParam(name) ==
    CASE name = "code_execution" -> "code"
      [] name = "bash_command" -> "command"
      [] name = "file_analysis" -> "content"
      [] name = "web_fetch" -> "url"
      [] name = "data_storage" -> "operation"
      [] OTHER -> "input"

\* ToolDefinition: name, the names of its required parameters, sandbox policy
Tools ==
    UNION {{[name |-> n, required |-> q, sandbox |-> sb] :
               q \in {{}, {PrimaryParam(n)}}, sb \in SandboxConfigs} : n \in ToolNames}

\* loader.get_tool returned None
NoTool == [name |-> "", required |-> {}, sandbox |-> {}]

Languages == {"python", "bash", "node", "ruby"}

\* DANGEROUS_IMPORTS (three of its entries) and, for each, dangerous.split('.')[0]
DANGEROUS_IMPORTS == {"subprocess", "socket", "os.system"}

ImportHead(dangerous) == IF dangerous = "os.system" THEN "os" ELSE dangerous

\* Submitted code is a sequence of lexical tokens; " " is a run of whitespace.
\* The samples: empty code, harmless code, a dangerous name that is only
\* mentioned, import statements of the three forms the screen matches, an import
\* keyword glued to the name, and calls matched by DANGEROUS_PATTERNS.
CodeSamples ==
    { <<>>,
      <<"x">>,
      <<"subprocess">>,
      <<"import", " ", "subprocess">>,
      <<"import", "subprocess">>,
      <<"os.system", " ", "from", " ", "os", " ", "import", " ", "x">>,
      <<"__import__", "(", "'", "socket", "'">>,
      <<"eval", " ", "(">>,
      <<"open", "(", "x", "'", "w">> }

\* code[i..] starts with the tokens of pat
TokensAt(code, i, pat) ==
    /\ i + Len(pat) - 1 <= Len(code)
    /\ SubSeq(code, i, i + Len(pat) - 1) = pat

\* re.search for a pattern given as alternative token sequences
Search(code, alternatives) ==
    \E pat \in alternatives : \E i \in 1..Len(code) : TokensAt(code, i, pat)

\* the three precise patterns check_dangerous_code builds for one dangerous name
ImportPatterns(dangerous) ==
    { <<"import", " ", dangerous>>,
      <<"from", " ", ImportHead(dangerous), " ", "import">>,
      <<"__import__", "(", "'", dangerous, "'">>,
      <<"__import__", " ", "(", "'", dangerous, "'">>,
      <<"__import__", "(", " ", "'", dangerous, "'">> }

\* DANGEROUS_PATTERNS: eval(, exec(, compile(, __import__(, open(...'w, globals(), locals()
DANGEROUS_PATTERNS ==
    UNION {{<<f, "(">>, <<f, " ", "(">>} : f \in {"eval", "exec", "compile", "__import__"}}
    \cup {<<"open", "(", "'", "w">>, <<"open", "(", "x", "'", "w">>,
          <<"globals", "(", ")">>, <<"locals", "(", ")">>}

\* check_dangerous_code: (is_safe, reason)
check_dangerous_code(code, language) ==
    IF language # "python" THEN [is_safe |-> TRUE, reason |-> ""]
    ELSE IF \E d \in DANGEROUS_IMPORTS :
               /\ \E i \in 1..Len(code) : code[i] = d
               /\ Search(code, ImportPatterns(d))
    THEN [is_safe |-> FALSE, reason |-> "Blocked import"]
    ELSE IF Search(code, DANGEROUS_PATTERNS)
    THEN [is_safe |-> FALSE, reason |-> "Blocked pattern detected"]
    ELSE [is_safe |-> TRUE, reason |-> ""]

\* the args dict of an invocation: a function from the keys given to their values
NoArgs == [k \in {} |-> ""]

ArgsFor(name) ==
    IF name = "code_execution"
    THEN {NoArgs}
         \cup {("code" :> c) : c \in CodeSamples}
         \cup {("language" :> l) : l \in Languages}
         \cup {("code" :> c) @@ ("language" :> l) : c \in CodeSamples, l \in Languages}
    ELSE {NoArgs, (PrimaryParam(name) :> "v"),
          ("code" :> <<"import", " ", "subprocess">>) @@ (PrimaryParam(name) :> "v")}

\* dict.get(key, default)
Get(args, key, default) == IF key \in DOMAIN args THEN args[key] ELSE default

\* what the submitted program does inside the container: whether it exits before
\* the policy timeout, its exit status and its two output streams
Workloads ==
    [halts : {TRUE}, exit_code : {0, 1}, stdout : {"", "out"}, stderr : {"", "err"}]
    \cup [halts : {FALSE}, exit_code : {0}, stdout : {""}, stderr : {""}]

NoReq == [via |-> "none", session_id |-> <<>>, tool |-> NoTool, args |-> NoArgs,
          workload |-> [halts |-> TRUE, exit_code |-> 0, stdout |-> "", stderr |-> ""]]

NoContainer == [state |-> "none"]

NoConfig == [launched |-> FALSE]

\* what an invocation has done so far
NoTrace ==
    [screened |-> "none", built |-> FALSE, launches |-> 0, kills |-> 0, removes |-> 0,
     storage_ops |-> 0, results |-> 0, wait |-> "none", exit_code |-> -1,
     logs |-> "none"]

NoResult ==
    [kind |-> "none", status |-> 0, success |-> FALSE, output |-> "",
     error |-> <<"", "">>, execution_time |-> "none"]

\* ExecutionResult(success, output, error, execution_time); the error text is a
\* pair <<fixed prefix, detail>>
ExecutionResult(success, output, error, execution_time) ==
    [kind |-> "ExecutionResult", status |-> 0, success |-> success, output |-> output,
     error |-> error, execution_time |-> execution_time]

\* server.execute_tool wraps the ExecutionResult into an ExecuteResponse (HTTP 200)
ExecuteResponse(res) == [res EXCEPT !.kind = "ExecuteResponse", !.status = 200]

\* raise HTTPException(status_code, detail)
HTTPException(status, detail) ==
    [kind |-> "HTTPException", status |-> status, success |-> FALSE, output |-> "",
     error |-> <<detail, "">>, execution_time |-> "none"]

ExecIdle ==
    /\ req = [r \in Reqs |-> NoReq]
    /\ pc = [r \in Reqs |-> "idle"]
    /\ container = [r \in Reqs |-> NoContainer]
    /\ launchCfg = [r \in Reqs |-> NoConfig]
    /\ trace = [r \in Reqs |-> NoTrace]
    /\ result = [r \in Reqs |-> NoResult]
    /\ loop = 0

\* no call of load_all is under way and no lookup has been made
NoLoad == [pc |-> "idle", todo |-> <<>>, old |-> <<>>]

NoLookup == [op |-> "none", name |-> [t |-> "str", v |-> ""], during |-> "idle",
             raised |-> FALSE, old |-> <<>>, found |-> FALSE, names |-> {},
             value |-> [ok |-> FALSE]]

\* ToolLoader.__init__ on an empty tools directory: self.tools = {}
LoaderIdle ==
    /\ tool_files = <<>>
    /\ loader_tools = <<>>
    /\ load = NoLoad
    /\ lookup = NoLookup

\* the client addresses get_client_ip tells apart
ClientIps == {"ip1", "ip2"}

NoRequest == [ip |-> "", path |-> "", status |-> 0, remaining |-> 0, served |-> FALSE]

\* shared/auth.py at import: _rate_limits = defaultdict(list)
AuthIdle ==
    /\ clock = 0
    /\ rate_limits = [ip \in ClientIps |-> <<>>]
    /\ admitted = [ip \in ClientIps |-> <<>>]
    /\ lastReq = NoRequest

\* the models of models.yaml (Docker-based, engine vllm) and the requests the
\* model manager handles at a time
ManagerModels == {"m1", "m2"}
Coroutines == 1..MaxCoroutines

\* a status list: per model the status computed, and the container changes that
\* had been made when docker was asked
NoSnapshot == [set |-> FALSE, status |-> [m \in ManagerModels |-> "none"], version |-> 0]

NoTask ==
    [op |-> "none", model |-> "", pc |-> "idle", now |-> 0, seen |-> NoSnapshot,
     launched |-> FALSE, effect |-> 0, out |-> "", returned |-> NoSnapshot]

\* model-manager/server.py at import, before lifespan starts the health task
ManagerIdle ==
    /\ starting_models = <<>>
    /\ starting_lock = "free"
    /\ cache = [models |-> NoSnapshot, timestamp |-> 0]
    /\ cache_lock = 0
    /\ docker \in [ManagerModels -> {"not_created"}]
    /\ history = [version |-> 0, settled |-> 0, calls |-> 0]
    /\ task = [c \in Coroutines |-> NoTask]
    /\ health = [pc |-> "sleep", todo |-> {}, completed |-> {}]
    /\ mtime = 0

\* the services beside the sandbox before their first request
ServicesIdle == AuthIdle /\ ManagerIdle

\* SandboxExecutor.workspace_dir: tempfile.mkdtemp(prefix="sandbox_"), one
\* directory made when the executor is constructed
executor_workspace_dir == <<"/", "t", "/", "s">>

\* a _build_command that runs code of any other language with python3
build_command_any_language(tool, args) ==
    IF tool.name = "code_execution"
    THEN LET code == Get(args, "code", <<>>)
             language == Get(args, "language", "python")
         IN CASE language = "bash" -> [ok |-> TRUE, cmd |-> <<"bash", "-c", code>>]
              [] language = "node" -> [ok |-> TRUE, cmd |-> <<"node", "-e", code>>]
              [] OTHER -> [ok |-> TRUE, cmd |-> <<"python3", "-c", code>>]
    ELSE [ok |-> TRUE, cmd |-> <<"bash", "-c", Get(args, "command", "")>>]

\* SandboxExecutor._build_command: the command, or the ValueError it raises
build_command(tool, args) ==
    IF tool.name = "code_execution"
    THEN LET code == Get(args, "code", <<>>)
             language == Get(args, "language", "python")
         IN CASE language = "python" -> [ok |-> TRUE, cmd |-> <<"python3", "-c", code>>]
              [] language = "bash" -> [ok |-> TRUE, cmd |-> <<"bash", "-c", code>>]
              [] language = "node" -> [ok |-> TRUE, cmd |-> <<"node", "-e", code>>]
              [] OTHER -> [ok |-> FALSE, error |-> <<"Unsupported language: ", language>>]
    ELSE IF tool.name = "bash_command"
    THEN [ok |-> TRUE, cmd |-> <<"bash", "-c", Get(args, "command", "")>>]
    ELSE IF tool.name = "file_analysis"
    THEN [ok |-> TRUE, cmd |-> <<"python3", "-c", "file_analysis_script">>]
    ELSE IF tool.name = "web_fetch"
    THEN [ok |-> TRUE, cmd |-> <<"python3", "-c", "web_fetch_script">>]
    ELSE [ok |-> FALSE, error |-> <<"Unknown tool: ", tool.name>>]

\* a container_config that keeps the image's user and never disables the network
container_config_root(tool, cmd, seccomp_exists) ==
    [launched |-> TRUE, image |-> tool.sandbox.image, command |-> cmd, detach |-> TRUE,
     remove |-> FALSE, mem_limit |-> tool.sandbox.memory, cpu_period |-> 100000,
     cpu_quota |-> tool.sandbox.cpu_percent * 1000, user |-> "",
     security_opt |-> {"no-new-privileges"}, cap_drop |-> {"ALL"}, pids_limit |-> 100,
     network_disabled |-> FALSE, read_only |-> tool.sandbox.read_only,
     tmpfs |-> IF tool.sandbox.read_only THEN {"/tmp"} ELSE {}, volumes |-> {}]

\* execute: the container_config handed to client.containers.run; an option the
\* code leaves unset has Docker's default (network enabled, writable root, no
\* tmpfs, no volume)
container_config(tool, cmd, seccomp_exists) ==
    LET sandbox == tool.sandbox
    IN [launched |-> TRUE,
        image |-> sandbox.image,
        command |-> cmd,
        detach |-> TRUE,
        remove |-> FALSE,
        mem_limit |-> sandbox.memory,
        cpu_period |-> 100000,
        cpu_quota |-> sandbox.cpu_percent * 1000,
        user |-> "1000:1000",
        security_opt |-> {"no-new-privileges"}
                         \cup (IF seccomp_exists THEN {"seccomp"} ELSE {}),
        cap_drop |-> {"ALL"},
        pids_limit |-> 100,
        network_disabled |-> ~sandbox.network,
        read_only |-> sandbox.read_only,
        tmpfs |-> IF sandbox.read_only THEN {"/tmp"} ELSE {},
        volumes |-> IF sandbox.mount_workspace
                    THEN {[host |-> executor_workspace_dir,
                           bind |-> "/home/sandbox/workspace", mode |-> "rw"]}
                    ELSE {}]

\* container.remove(force=True): Docker deletes the container whatever its state
force_remove(c) == [c EXCEPT !.state = "removed"]

\* the invocation returns res: to the caller, or as the HTTP response of the
\* handler, which then leaves the event loop
Return(r, via, t, res) ==
    /\ pc' = [pc EXCEPT ![r] = "done"]
    /\ trace' = [trace EXCEPT ![r] = [t EXCEPT !.results = @ + 1]]
    /\ result' = [result EXCEPT ![r] = IF via = "http" /\ res.kind = "ExecutionResult"
                                       THEN ExecuteResponse(res) ELSE res]
    /\ loop' = IF via = "http" THEN 0 ELSE loop

\* execute with the screen never applied
security_check_skipped(tool, args) == [is_safe |-> TRUE, reason |-> ""]

\* execute with the screen applied to the code argument of every tool
security_check_every_tool(tool, args) ==
    check_dangerous_code(Get(args, "code", <<>>), Get(args, "language", "python"))

\* execute: the security screen, applied to the code_execution tool only
security_check(tool, args) ==
    IF tool.name = "code_execution"
    THEN check_dangerous_code(Get(args, "code", <<>>), Get(args, "language", "python"))
    ELSE [is_safe |-> TRUE, reason |-> ""]

\* SandboxExecutor.execute up to the return of client.containers.run: the
\* security screen, the command, the container configuration and the launch
execute_begin(r, via, tool, args) ==
    LET screen == security_check(tool, args)
        screened == IF tool.name # "code_execution" THEN "none"
                    ELSE IF screen.is_safe THEN "safe" ELSE "blocked"
        t0 == [trace[r] EXCEPT !.screened = screened]
        built == build_command(tool, args)
    IN IF ~screen.is_safe
       THEN /\ Return(r, via, t0,
                      ExecutionResult(FALSE, "", <<"Security violation: ", screen.reason>>,
                                      "zero"))
            /\ UNCHANGED <<container, launchCfg>>
       ELSE IF ~built.ok
       THEN \* the ValueError reaches the outer except Exception
            /\ Return(r, via, t0, ExecutionResult(FALSE, "", built.error, "elapsed"))
            /\ UNCHANGED <<container, launchCfg>>
       ELSE \E seccomp_exists \in BOOLEAN,
               run \in {"started", "create_failed", "start_failed"} :
            LET t1 == [t0 EXCEPT !.built = TRUE, !.launches = @ + 1]
            IN /\ launchCfg' = [launchCfg EXCEPT
                                  ![r] = container_config(tool, built.cmd, seccomp_exists)]
               /\ IF run = "started"
                  THEN /\ container' = [container EXCEPT ![r] = [state |-> "running"]]
                       /\ pc' = [pc EXCEPT ![r] = "wait"]
                       /\ trace' = [trace EXCEPT ![r] = t1]
                       /\ loop' = IF via = "http" THEN r ELSE loop
                       /\ UNCHANGED result
                  ELSE \* containers.run raised: docker-py creates, then starts; a
                       \* failed start leaves the created container behind
                       /\ container' = [container EXCEPT
                                          ![r] = IF run = "start_failed"
                                                 THEN [state |-> "created"]
                                                 ELSE NoContainer]
                       /\ Return(r, via, t1,
                                 ExecutionResult(FALSE, "", <<"", "launch error">>,
                                                 "elapsed"))

\* a caller invokes SandboxExecutor.execute(tool, args) directly
DirectCall(r) ==
    /\ pc[r] = "idle"
    /\ \E tool \in Tools, w \in Workloads :
         \E args \in ArgsFor(tool.name) :
            \* execute(tool, args) is given no session
            /\ req' = [req EXCEPT ![r] = [via |-> "direct", session_id |-> <<>>,
                                          tool |-> tool, args |-> args, workload |-> w]]
            /\ execute_begin(r, "direct", tool, args)
    /\ UNCHANGED <<storageVars, loaderVars, serviceVars>>

\* POST /api/execute/{tool_name} is received, for a tool among tools (NoTool: the
\* name is not loaded) and with the session id of the request; its handler waits
\* for the event loop
HttpArriveFrom(r, tools, workloads) ==
    /\ pc[r] = "idle"
    /\ \E tool \in tools, w \in workloads, sid \in SessionIds :
         \E args \in ArgsFor(tool.name) :
            req' = [req EXCEPT ![r] = [via |-> "http", session_id |-> sid, tool |-> tool,
                                       args |-> args, workload |-> w]]
    /\ pc' = [pc EXCEPT ![r] = "queued"]
    /\ UNCHANGED <<container, launchCfg, trace, result, loop>>
    /\ UNCHANGED <<storageVars, loaderVars, serviceVars>>

HttpArrive(r) == HttpArriveFrom(r, Tools \cup {NoTool}, Workloads)

\* server.execute_tool, run by the event loop: lookup, validation of the required
\* parameters, the storage tool, and otherwise executor.execute, called
\* synchronously from the coroutine
HandleRequest(r) ==
    /\ pc[r] = "queued"
    /\ loop = 0
    /\ LET tool == req[r].tool
           args == req[r].args
       IN IF tool = NoTool
          THEN /\ Return(r, "http", trace[r], HTTPException(404, "Tool not found"))
               /\ UNCHANGED <<container, launchCfg>>
          ELSE IF \E p \in tool.required : p \notin DOMAIN args
          THEN /\ Return(r, "http", trace[r],
                         HTTPException(400, "Missing required parameter"))
               /\ UNCHANGED <<container, launchCfg>>
          ELSE IF tool.name = "data_storage"
          THEN /\ IF "operation" \in DOMAIN args
                  THEN \E ok \in BOOLEAN :
                         Return(r, "http", [trace[r] EXCEPT !.storage_ops = @ + 1],
                                [kind |-> "ExecuteResponse", status |-> 200,
                                 success |-> ok, output |-> "storage result",
                                 error |-> <<"", IF ok THEN "" ELSE "storage error">>,
                                 execution_time |-> "zero"])
                  ELSE \* execute_storage_operation() misses its operation argument
                       Return(r, "http", trace[r], HTTPException(500, "TypeError"))
               /\ UNCHANGED <<container, launchCfg>>
          ELSE execute_begin(r, "http", tool, args)
    /\ UNCHANGED req
    /\ UNCHANGED <<storageVars, loaderVars, serviceVars>>

\* execute: the result built from one log call that returns both streams
exit_result_merged(w) ==
    ExecutionResult(w.exit_code = 0,
                    IF w.stderr # "" THEN "out and err" ELSE w.stdout,
                    <<"", "">>, "elapsed")

\* execute: the result built from the exit status and the two decoded log streams
\* with the exit status ignored
exit_result_always_success(w) ==
    ExecutionResult(TRUE, w.stdout, <<"", w.stderr>>, "elapsed")

\* execute: the result built from the exit status and the two decoded log streams
exit_result(w) ==
    IF w.exit_code = 0
    THEN ExecutionResult(TRUE, w.stdout, <<"", w.stderr>>, "elapsed")
    ELSE ExecutionResult(FALSE, w.stdout,
                         IF w.stderr # "" THEN <<"", w.stderr>>
                         ELSE <<"Exit code: ", ToString(w.exit_code)>>,
                         "elapsed")

\* the except branch with the finally clause missing: the container is killed
\* but not removed
wait_failed_no_remove(r, cause, t) ==
    /\ container' = [container EXCEPT ![r] = [state |-> "exited"]]
    /\ Return(r, req[r].via, [t EXCEPT !.kills = @ + 1],
              ExecutionResult(FALSE, "", <<"Timeout after 30s: ", cause>>, "elapsed"))

\* the except branch retrying the launch instead of returning
wait_failed_retry(r, cause, t) ==
    /\ container' = [container EXCEPT ![r] = [state |-> "running"]]
    /\ trace' = [trace EXCEPT ![r] = [t EXCEPT !.kills = @ + 1, !.removes = @ + 1,
                                               !.launches = @ + 1]]
    /\ UNCHANGED <<pc, result, loop>>

\* the except branch of the wait: kill (its failure is swallowed), the Timeout
\* result, and the finally clause
wait_failed(r, cause, t) ==
    /\ container' = [container EXCEPT ![r] = force_remove(@)]
    /\ Return(r, req[r].via,
              [t EXCEPT !.kills = @ + 1, !.removes = @ + 1],
              ExecutionResult(FALSE, "", <<"Timeout after 30s: ", cause>>, "elapsed"))

\* the container exits before the timeout: container.wait returns, the logs are
\* read and decoded, the result is built, the finally clause removes the container
WaitReturns(r) ==
    /\ pc[r] = "wait"
    /\ container[r].state = "running"
    /\ req[r].workload.halts
    /\ LET w == req[r].workload
           t == [trace[r] EXCEPT !.wait = "exited", !.exit_code = w.exit_code]
       IN \E logs \in {"ok", "raised"} :
            IF logs = "ok"
            THEN /\ container' = [container EXCEPT ![r] = force_remove(@)]
                 /\ Return(r, req[r].via,
                           [t EXCEPT !.logs = "ok", !.removes = @ + 1],
                           exit_result(w))
            ELSE \* container.logs or .decode("utf-8") raised
                 wait_failed(r, "logs error", [t EXCEPT !.logs = "raised"])
    /\ UNCHANGED <<req, launchCfg>>
    /\ UNCHANGED <<storageVars, loaderVars, serviceVars>>

\* the policy timeout passes with the container still running: container.wait raises
WaitTimeout(r) ==
    /\ pc[r] = "wait"
    /\ container[r].state = "running"
    /\ ~req[r].workload.halts
    /\ wait_failed(r, "read timed out", [trace[r] EXCEPT !.wait = "timeout"])
    /\ UNCHANGED <<req, launchCfg>>
    /\ UNCHANGED <<storageVars, loaderVars, serviceVars>>

\* container.wait raises for another reason (an API or connection error)
WaitError(r) ==
    /\ pc[r] = "wait"
    /\ container[r].state = "running"
    /\ wait_failed(r, "api error", [trace[r] EXCEPT !.wait = "error"])
    /\ UNCHANGED <<req, launchCfg>>
    /\ UNCHANGED <<storageVars, loaderVars, serviceVars>>

----------------------------------------------------------------------------
(* The storage manager's file operations on their own *)

\* StorageManager.__init__: the base directory exists, no session yet
InitStorage ==
    /\ sessions = <<>>
    /\ fsDirs = {base_workspace} \cup Ancestors(base_workspace)
    /\ fsFiles = <<>>
    /\ lastOp = NoOp
    /\ now = 0
    /\ thr = [t \in Threads |-> NoCall]
    /\ lock = 0
    /\ allocs = [id \in SessionIds |-> 0]

InitFiles == InitStorage /\ ExecIdle /\ LoaderIdle /\ ServicesIdle

NextFiles == FileWrite \/ FileRead \/ FileList

SpecFiles == InitFiles /\ [][NextFiles]_vars

\* the workspace of the session the last operation was issued for
OpWorkspace == WorkspaceOf(lastOp.session)

\* the last operation's path was accepted by _safe_path
Accepted == lastOp.op # "none" /\ lastOp.resolved # None

\* the last operation was rejected with the invalid-path error
RejectedInvalid == lastOp.op # "none" /\ lastOp.error = "Invalid path"

\* C1: every accepted path resolves to the session's workspace root or to a
\* descendant of it, never to another directory (such as the workspace of a session
\* whose id has this session's id as a prefix).
C1_AcceptedPathInsideWorkspace ==
    Accepted => Within(lastOp.resolved, OpWorkspace)

\* the path string has a ".." segment
HasParentSegment(path) == \E i \in 1..Len(Split(path)) : Split(path)[i] = DOTDOT

\* the filesystem calls an operation may make before it has validated the path:
\* get_or_create_session's creation of the session's own workspace directory
CallsBeforeValidation == {FsCall("mkdir", OpWorkspace)}

LeadsTo == full_path_of(OpWorkspace, lastOp.path)

----------------------------------------------------------------------------
(* One invocation of a tool, directly or through the HTTP route *)

InitExec == InitStorage /\ ExecIdle /\ LoaderIdle /\ ServicesIdle

DirectCallOne == DirectCall(1)
HttpArriveOne == HttpArrive(1)
HandleRequestOne == HandleRequest(1)
WaitReturnsOne == WaitReturns(1)
WaitTimeoutOne == WaitTimeout(1)
WaitErrorOne == WaitError(1)

NextExec ==
    \/ DirectCallOne
    \/ HttpArriveOne
    \/ HandleRequestOne
    \/ WaitReturnsOne
    \/ WaitTimeoutOne
    \/ WaitErrorOne

SpecExec == InitExec /\ [][NextExec]_vars

\* the invocation has a required parameter of its tool missing from its args
MissingRequired(r) ==
    /\ req[r].via # "none"
    /\ \E p \in req[r].tool.required : p \notin DOMAIN req[r].args

\* execute(tool, args) was invoked for r and has returned its result
ExecuteReturned(r) ==
    /\ pc[r] = "done"
    /\ \/ req[r].via = "direct"
       \/ (result[r].kind = "ExecuteResponse" /\ req[r].tool.name # "data_storage")

\* the run of r launched a container (containers.run returned it)
Launched(r) == trace[r].wait # "none" \/ pc[r] = "wait"

TimeoutClassified(res) == res.error[1] = "Timeout after 30s: "

C4_MissingRequiredNeverLaunches ==
    \A r \in Reqs :
        MissingRequired(r) =>
            /\ trace[r].launches = 0
            /\ trace[r].storage_ops = 0
            /\ ~trace[r].built
            /\ pc[r] = "done" => ~result[r].success

\* the security screen blocks the code submitted with r
ScreenBlocks(r) ==
    /\ req[r].tool.name = "code_execution"
    /\ ~check_dangerous_code(Get(req[r].args, "code", <<>>),
                             Get(req[r].args, "language", "python")).is_safe

C6_TimeoutDistinctFromNonZeroExit ==
    \A r \in Reqs :
        ExecuteReturned(r) =>
            /\ trace[r].wait = "timeout" =>
                  /\ ~result[r].success
                  /\ TimeoutClassified(result[r])
                  /\ result[r].output = ""
                  /\ trace[r].kills = 1
            /\ (trace[r].wait = "exited" /\ trace[r].exit_code # 0) =>
                  ~TimeoutClassified(result[r])

\* C7: an invocation launches at most one container and returns exactly one
\* result; nothing is launched again after a failure, a non-zero exit or a timeout.
C7_OneResultOneLaunch ==
    \A r \in Reqs :
        /\ trace[r].launches <= 1
        /\ trace[r].results = (IF pc[r] = "done" THEN 1 ELSE 0)
        /\ pc[r] = "done" => result[r].kind # "none"

\* witness of C7: a timed-out invocation has returned, with its single launch
C7_Witness ==
    \E r \in Reqs :
        /\ pc[r] = "done"
        /\ trace[r].wait = "timeout"
        /\ trace[r].launches = 1
        /\ trace[r].results = 1

\* C8 (as stated): success is true exactly when a container was launched, exited
\* within the timeout and its exit code was 0.
C8_SuccessIffExitZero ==
    \A r \in Reqs :
        ExecuteReturned(r) =>
            (result[r].success <=>
                (trace[r].launches = 1 /\ trace[r].wait = "exited"
                                       /\ trace[r].exit_code = 0))

\* C8 (amended): success is true exactly when a container was launched, exited
\* within the timeout with exit code 0 and both log streams were read and decoded.
C8_SuccessIffExitZeroAndLogsRead ==
    \A r \in Reqs :
        ExecuteReturned(r) =>
            (result[r].success <=>
                (trace[r].launches = 1 /\ trace[r].wait = "exited"
                    /\ trace[r].exit_code = 0 /\ trace[r].logs = "ok"))

\* witness of C8: a run that exited with code 0 is reported as success, and
\* another kind of run (exit code 1) as failure
C8_Witness ==
    \E r \in Reqs :
        /\ ExecuteReturned(r)
        /\ trace[r].wait = "exited"
        /\ trace[r].exit_code = 0
        /\ trace[r].logs = "ok"
        /\ result[r].success

\* C11: a launch for a policy with mount_workspace binds the workspace of the
\* invocation's session read-write, and a launch for a policy without it mounts
\* nothing.
C11_MountIsSessionWorkspace ==
    \A r \in Reqs :
        (trace[r].launches > 0 /\ req[r].via = "http") =>
            launchCfg[r].volumes =
                IF req[r].tool.sandbox.mount_workspace
                THEN {[host |-> WorkspaceOf(req[r].session_id),
                       bind |-> "/home/sandbox/workspace", mode |-> "rw"]}
                ELSE {}

----------------------------------------------------------------------------
(* The HTTP service: concurrent requests to the execute route, handled by the *)
(* single event loop of uvicorn.run(app)                                      *)

\* SandboxConfig() with every field at its default
DefaultSandbox ==
    [image |-> "sandbox-executor:latest", timeout |-> 30, memory |-> "256m",
     cpu_percent |-> 50, network |-> FALSE, read_only |-> TRUE,
     mount_workspace |-> FALSE]

\* the tools and workloads of the concurrent requests
ServerTools ==
    {[name |-> "bash_command", required |-> {"command"}, sandbox |-> DefaultSandbox],
     [name |-> "data_storage", required |-> {"operation"}, sandbox |-> DefaultSandbox]}

ServerWorkloads ==
    {[halts |-> TRUE, exit_code |-> 0, stdout |-> "out", stderr |-> ""],
     [halts |-> FALSE, exit_code |-> 0, stdout |-> "", stderr |-> ""]}

HttpArriveServer(r) == HttpArriveFrom(r, ServerTools, ServerWorkloads)

InitServer == InitStorage /\ ExecIdle /\ LoaderIdle /\ ServicesIdle

NextServer ==
    \E r \in Reqs :
        \/ HttpArriveServer(r)
        \/ HandleRequest(r)
        \/ WaitReturns(r)
        \/ WaitTimeout(r)
        \/ WaitError(r)

SpecServer == InitServer /\ [][NextServer]_vars

\* C9: while one invocation waits for its container to exit, the service can
\* still take up and complete another request that has been received.
C9_OthersServedDuringWait ==
    \A r \in Reqs : \A r2 \in Reqs :
        (pc[r] = "wait" /\ pc[r2] = "queued") => ENABLED HandleRequest(r2)

----------------------------------------------------------------------------
(* storage.py: calls of the storage manager made by concurrent threads, one  *)
(* step per access to the lock, the session table or the filesystem          *)

\* a with block entered without taking the lock
lock_acquire_skipped(t) == lock' = lock

\* with self.lock: the thread enters when the lock is free
lock_acquire(t) == lock = 0 /\ lock' = t

\* leaving the with block (normally or by an exception)
lock_release(t) == lock' = IF lock = t THEN 0 ELSE lock

\* the thread's call ends: with its result, or with the exception it raised
Finish(t, ret, error) ==
    thr' = [thr EXCEPT ![t] = [@ EXCEPT !.pc = "done", !.ret = ret, !.error = error]]

Goto(t, label) == thr' = [thr EXCEPT ![t] = [@ EXCEPT !.pc = label]]

\* a thread enters get_or_create_session(id), kv_set(id, "k", "v"),
\* file_write(id, "f", "c1"), the delete route's _destroy_session(id) or
\* cleanup_expired_sessions()
ThreadCalls(t, ops) ==
    /\ thr[t].pc = "idle"
    /\ \E op \in ops, id \in SessionIds :
         /\ op \in {"get_or_create_session", "kv_set", "file_write"}
               => allocs[id] < MaxAllocs
         /\ thr' = [thr EXCEPT ![t] =
                      [op |-> op,
                       id |-> IF op = "cleanup_expired_sessions" THEN <<>> ELSE id,
                       pc |-> CASE op = "delete_session" -> "d_check"
                                [] op = "cleanup_expired_sessions" -> "c_lock"
                                [] OTHER -> "g_lock",
                       todo |-> {}, ret |-> 0, error |-> "",
                       \* cleanup_expired_sessions reads the clock on entry
                       at |-> IF op = "cleanup_expired_sessions" THEN now ELSE 0]]
    /\ UNCHANGED <<sessions, fsDirs, fsFiles, lastOp, now, lock, allocs, execVars, loaderVars, serviceVars>>

\* get_or_create_session / cleanup_expired_sessions: with self.lock
Acquire(t) ==
    /\ thr[t].pc \in {"g_lock", "c_lock"}
    /\ lock_acquire(t)
    /\ Goto(t, IF thr[t].pc = "g_lock" THEN "g_check" ELSE "c_scan")
    /\ UNCHANGED <<sessions, fsDirs, fsFiles, lastOp, now, allocs, execVars, loaderVars, serviceVars>>

\* get_or_create_session: if session_id not in self.sessions
GetCheck(t) ==
    /\ thr[t].pc = "g_check"
    /\ Goto(t, IF thr[t].id \notin DOMAIN sessions THEN "g_create" ELSE "g_return")
    /\ UNCHANGED <<sessions, fsDirs, fsFiles, lastOp, now, lock, allocs, execVars, loaderVars, serviceVars>>

\* get_or_create_session: workspace.mkdir and self.sessions[session_id] = Session(...)
GetCreate(t) ==
    /\ thr[t].pc = "g_create"
    /\ LET id == thr[t].id
       IN IF WorkspaceOf(id) \in DOMAIN fsFiles
          THEN /\ Finish(t, 0, "FileExistsError")
               /\ lock_release(t)
               /\ UNCHANGED <<sessions, fsDirs, allocs>>
          ELSE /\ sessions' = (id :> Session(id, now, WorkspaceOf(id))) @@ sessions
               /\ fsDirs' = fsDirs \cup {WorkspaceOf(id)} \cup Ancestors(WorkspaceOf(id))
               /\ allocs' = [allocs EXCEPT ![id] = @ + 1]
               /\ Goto(t, "g_return")
               /\ UNCHANGED lock
    /\ UNCHANGED <<fsFiles, lastOp, now, execVars, loaderVars, serviceVars>>

\* get_or_create_session: return self.sessions[session_id]; the object returned
\* is the latest one constructed for the id
GetReturn(t) ==
    /\ thr[t].pc = "g_return"
    /\ LET id == thr[t].id
       IN IF id \notin DOMAIN sessions
          THEN Finish(t, 0, "KeyError")
          ELSE IF thr[t].op = "kv_set"
          THEN thr' = [thr EXCEPT ![t] = [@ EXCEPT !.pc = "k_write", !.ret = allocs[id]]]
          ELSE IF thr[t].op = "file_write"
          THEN thr' = [thr EXCEPT ![t] = [@ EXCEPT !.pc = "w_makedirs", !.ret = allocs[id]]]
          ELSE Finish(t, allocs[id], "")
    /\ lock_release(t)
    /\ UNCHANGED <<sessions, fsDirs, fsFiles, lastOp, now, allocs, execVars, loaderVars, serviceVars>>

\* kv_set: session.data[namespace][key] = value, on the Session object it was
\* given; an object no longer in the table is written to without visible effect
KvWrite(t) ==
    /\ thr[t].pc = "k_write"
    /\ LET id == thr[t].id
       IN sessions' = IF id \in DOMAIN sessions /\ thr[t].ret = allocs[id]
                      THEN [sessions EXCEPT ![id].data =
                               [@ EXCEPT !["default"] = ("k" :> "v") @@ @]]
                      ELSE sessions
    /\ Finish(t, thr[t].ret, "")
    /\ UNCHANGED <<fsDirs, fsFiles, lastOp, now, lock, allocs, execVars, loaderVars, serviceVars>>

\* shutil.rmtree(workspace, ignore_errors=True): the directories and files left
DirsAfterRmtree(workspace) == {d \in fsDirs : ~Within(d, workspace)}

FilesAfterRmtree(workspace) ==
    [q \in {f \in DOMAIN fsFiles : ~Within(f, workspace)} |-> fsFiles[q]]

\* the table without the entry of id
SessionsWithout(id) == [x \in DOMAIN sessions \ {id} |-> sessions[x]]

\* where a thread continues after _destroy_session returns
AfterDestroy(t) ==
    IF thr[t].op = "cleanup_expired_sessions" THEN Goto(t, "c_next")
    ELSE Finish(t, 0, "")

\* _destroy_session: if session_id in self.sessions: session = self.sessions[session_id]
DestroyCheck(t) ==
    /\ thr[t].pc = "d_check"
    /\ IF thr[t].id \in DOMAIN sessions THEN Goto(t, "d_rmtree") ELSE AfterDestroy(t)
    /\ UNCHANGED <<sessions, fsDirs, fsFiles, lastOp, now, lock, allocs, execVars, loaderVars, serviceVars>>

\* _destroy_session: shutil.rmtree(session.workspace_dir) if the directory exists
DestroyRmtree(t) ==
    /\ thr[t].pc = "d_rmtree"
    /\ fsDirs' = DirsAfterRmtree(WorkspaceOf(thr[t].id))
    /\ fsFiles' = FilesAfterRmtree(WorkspaceOf(thr[t].id))
    /\ Goto(t, "d_del")
    /\ UNCHANGED <<sessions, lastOp, now, lock, allocs, execVars, loaderVars, serviceVars>>

\* _destroy_session: del self.sessions[session_id]; a KeyError leaves the call,
\* and the with block of cleanup_expired_sessions when it made the call
DestroyDel(t) ==
    /\ thr[t].pc = "d_del"
    /\ IF thr[t].id \in DOMAIN sessions
       THEN /\ sessions' = SessionsWithout(thr[t].id)
            /\ AfterDestroy(t)
            /\ UNCHANGED lock
       ELSE /\ Finish(t, 0, "KeyError")
            /\ lock_release(t)
            /\ UNCHANGED sessions
    /\ UNCHANGED <<fsDirs, fsFiles, lastOp, now, allocs, execVars, loaderVars, serviceVars>>

\* a sweep that also removes the sessions whose age equals the TTL
Expired_inclusive(session, at) == at - session.created_at >= session_ttl

\* now - session.created_at > self.session_ttl
Expired(session, at) == at - session.created_at > session_ttl

\* cleanup_expired_sessions: the list of expired ids, under the lock, for the
\* time read when the call began
CleanupScan(t) ==
    /\ thr[t].pc = "c_scan"
    /\ thr' = [thr EXCEPT ![t] =
                 [@ EXCEPT !.pc = "c_next",
                           !.todo = {sid \in DOMAIN sessions :
                                        Expired(sessions[sid], thr[t].at)}]]
    /\ UNCHANGED <<sessions, fsDirs, fsFiles, lastOp, now, lock, allocs, execVars, loaderVars, serviceVars>>

\* cleanup_expired_sessions: for sid in expired: self._destroy_session(sid), and
\* the end of the with block after the last one
CleanupNext(t) ==
    /\ thr[t].pc = "c_next"
    /\ IF thr[t].todo = {}
       THEN /\ Finish(t, 0, "")
            /\ lock_release(t)
       ELSE /\ \E sid \in thr[t].todo :
                 thr' = [thr EXCEPT ![t] = [@ EXCEPT !.pc = "d_check", !.id = sid,
                                                     !.todo = @ \ {sid}]]
            /\ UNCHANGED lock
    /\ UNCHANGED <<sessions, fsDirs, fsFiles, lastOp, now, allocs, execVars, loaderVars, serviceVars>>

\* the caller has its result (or its exception) and may call again
ThreadReturns(t) ==
    /\ thr[t].pc = "done"
    /\ thr[t].error = ""
    /\ thr' = [thr EXCEPT ![t] = NoCall]
    /\ UNCHANGED <<sessions, fsDirs, fsFiles, lastOp, now, lock, allocs, execVars, loaderVars, serviceVars>>

\* time passes
Tick ==
    /\ now < MaxTime
    /\ now' = now + 1
    /\ UNCHANGED <<sessions, fsDirs, fsFiles, lastOp, threadVars, execVars, loaderVars, serviceVars>>

\* Concurrent get_or_create_session and kv_set calls only
GetOrCreateCalls == {"get_or_create_session", "kv_set"}

ThreadCallsGet(t) == ThreadCalls(t, GetOrCreateCalls)

InitThreads == InitStorage /\ ExecIdle /\ LoaderIdle /\ ServicesIdle

NextGetOrCreate ==
    \/ Tick
    \/ \E t \in Threads :
        \/ ThreadCallsGet(t)
        \/ Acquire(t)
        \/ GetCheck(t)
        \/ GetCreate(t)
        \/ GetReturn(t)
        \/ KvWrite(t)
        \/ ThreadReturns(t)

SpecGetOrCreate == InitThreads /\ [][NextGetOrCreate]_vars

\* Concurrent calls of every session-table operation
SessionCalls ==
    {"get_or_create_session", "kv_set", "delete_session", "cleanup_expired_sessions"}

ThreadCallsAny(t) == ThreadCalls(t, SessionCalls)

NextSessions ==
    \/ Tick
    \/ \E t \in Threads :
        \/ ThreadCallsAny(t)
        \/ Acquire(t)
        \/ GetCheck(t)
        \/ GetCreate(t)
        \/ GetReturn(t)
        \/ KvWrite(t)
        \/ DestroyCheck(t)
        \/ DestroyRmtree(t)
        \/ DestroyDel(t)
        \/ CleanupScan(t)
        \/ CleanupNext(t)
        \/ ThreadReturns(t)

SpecSessions == InitThreads /\ [][NextSessions]_vars

\* C12: under every interleaving of concurrent get_or_create_session calls, at
\* most one Session object is constructed per id, every caller receives that
\* object, and no step of a call changes an existing session's creation time or
\* drops a key of its data.
C12_OneSessionPerId ==
    /\ [](\A id \in SessionIds : allocs[id] <= 1)
    /\ [](\A t \in Threads : thr[t].pc = "done" => (thr[t].error = "" /\ thr[t].ret = 1))
    /\ [][\A id \in DOMAIN sessions :
            /\ id \in DOMAIN sessions'
            /\ sessions'[id].created_at = sessions[id].created_at
            /\ \A ns \in DOMAIN sessions[id].data :
                  /\ ns \in DOMAIN sessions'[id].data
                  /\ \A k \in DOMAIN sessions[id].data[ns] :
                        /\ k \in DOMAIN sessions'[id].data[ns]
                        /\ sessions'[id].data[ns][k] = sessions[id].data[ns][k]]_vars

\* witness of C12: two threads have returned from calls with the same id, both
\* with the one object, which holds a written key and an earlier creation time
C12_Witness ==
    \E t1 \in Threads : \E t2 \in Threads \ {t1} :
        /\ thr[t1].pc = "done" /\ thr[t2].pc = "done"
        /\ thr[t1].id = thr[t2].id
        /\ thr[t1].ret = 1 /\ thr[t2].ret = 1
        /\ "k" \in DOMAIN sessions[thr[t1].id].data["default"]
        /\ sessions[thr[t1].id].created_at < now

\* C13: under every interleaving of concurrent delete, sweep and get-or-create
\* calls no call fails with an error (every removal from the session table being
\* made under the manager lock).
C13_NoCallFails ==
    \A t \in Threads : thr[t].error = ""

----------------------------------------------------------------------------
(* storage.py: key-value, relational, info and session operations, each call *)
(* taken as one step (the calls of one thread, or of the server's handlers)  *)

\* Python's None where the other values are plain strings
PyNone == "None"

Namespaces == {"default", "n"}
Keys == {"k"}
Values == {"", "v"}

\* what kwargs.get("key") / kwargs.get("value") / kwargs.get("sql") may give
KeyArgs == Keys \cup {"", PyNone}
ValueArgs == Values \cup {PyNone}
SqlArgs == {PyNone, "select 1", "create table t (x)", "not sql"}

\* Python's `not x` for an Optional[str]
Falsy(x) == x = PyNone \/ x = ""

\* Session.get_db_connection: os.path.join(self.workspace_dir, "session.db")
DbPathOf(workspace) == workspace \o <<SLASH, "session.db">>

\* the outcome of one storage call: its arguments, the dict returned (success,
\* error, value) or the exception raised to the caller, for get_session_info
\* the info dict, and for db_query the state of the connection it opened
StoreResult(op, session_id, namespace, key, value, success, error, ret, raised) ==
    [op |-> op, session |-> session_id, namespace |-> namespace, key |-> key,
     value |-> value, success |-> success, error |-> error, ret |-> ret,
     raised |-> raised, info |-> <<>>, conn |-> "none"]

\* the sqlite3 connection of a db_query when the call returns: conn.close() is
\* the last statement of the try body, so a statement that raised leaves the
\* connection to the interpreter, which finalizes it at once (reference
\* counting) or at some later collection
ConnAtReturn(statement_raised, finalized) ==
    IF ~statement_raised THEN "closed"
    ELSE IF finalized THEN "finalized" ELSE "open"

\* a kv_set that keeps the value a key already has
kv_set_once(data, key, value, namespace) ==
    IF namespace \notin DOMAIN data THEN data @@ (namespace :> (key :> value))
    ELSE [data EXCEPT ![namespace] = @ @@ (key :> value)]

\* a kv_delete that drops the key from every namespace
kv_delete_everywhere(data, key, namespace) ==
    [deleted |-> \E ns \in DOMAIN data : key \in DOMAIN data[ns],
     data |-> [ns \in DOMAIN data |-> [k \in DOMAIN data[ns] \ {key} |-> data[ns][k]]]]

\* a not-found test that takes the empty string for a missing value
NotFound_when_empty(value) == value = PyNone \/ value = ""

\* execute_storage_operation, get: if value is None
NotFound(value) == value = PyNone

\* kv_set on the data of a session: session.data[namespace][key] = value
kv_set(data, key, value, namespace) ==
    IF namespace \notin DOMAIN data THEN data @@ (namespace :> (key :> value))
    ELSE [data EXCEPT ![namespace] = (key :> value) @@ @]

\* kv_get: session.data.get(namespace, {}).get(key)
kv_get(data, key, namespace) ==
    IF namespace \in DOMAIN data /\ key \in DOMAIN data[namespace]
    THEN data[namespace][key] ELSE PyNone

\* kv_delete: whether the key was there, and the data afterwards
kv_delete(data, key, namespace) ==
    IF namespace \in DOMAIN data /\ key \in DOMAIN data[namespace]
    THEN [deleted |-> TRUE,
          data |-> [data EXCEPT ![namespace] =
                       [k \in DOMAIN @ \ {key} |-> @[k]]]]
    ELSE [deleted |-> FALSE, data |-> data]

\* kv_list: list(session.data.get(namespace, {}).keys())
kv_list(data, namespace) ==
    IF namespace \in DOMAIN data THEN DOMAIN data[namespace] ELSE {}

\* a rejection made only after the manager has looked the session up
Rejected_after_get(op, session_id, namespace, key, value, error) ==
    /\ lastOp' = StoreResult(op, session_id, namespace, key, value, FALSE, error,
                             PyNone, FALSE)
    /\ sessions' = SessionsAfterGet(session_id)
    /\ fsDirs' = DirsAfterGet(session_id)
    /\ UNCHANGED fsFiles

\* a call rejected by execute_storage_operation before it reaches the manager
Rejected(op, session_id, namespace, key, value, error) ==
    /\ lastOp' = StoreResult(op, session_id, namespace, key, value, FALSE, error,
                             PyNone, FALSE)
    /\ UNCHANGED <<sessions, fsDirs, fsFiles>>

\* get_or_create_session raised inside the try block of execute_storage_operation
CaughtInGet(op, session_id, namespace, key, value) ==
    /\ lastOp' = StoreResult(op, session_id, namespace, key, value, FALSE,
                             "FileExistsError", PyNone, FALSE)
    /\ UNCHANGED <<sessions, fsDirs, fsFiles>>

\* a key-value call that reached the manager: the session is there afterwards,
\* with the data the call left
KvDone(op, session_id, namespace, key, value, success, error, ret, data) ==
    /\ sessions' = [SessionsAfterGet(session_id) EXCEPT ![session_id].data = data]
    /\ fsDirs' = DirsAfterGet(session_id)
    /\ lastOp' = StoreResult(op, session_id, namespace, key, value, success, error,
                             ret, FALSE)
    /\ UNCHANGED fsFiles

\* the data of the session after get_or_create_session
DataOf(session_id) == SessionsAfterGet(session_id)[session_id].data

\* execute_storage_operation(session_id, "set", key=, value=, namespace=)
StoreSetIn(nss, keys, values) ==
    /\ \E s \in SessionIds, ns \in nss, k \in keys, v \in values :
         IF Falsy(k) \/ v = PyNone
         THEN Rejected("set", s, ns, k, v, "Missing key or value")
         ELSE IF SessionMkdirFails(s) THEN CaughtInGet("set", s, ns, k, v)
         ELSE KvDone("set", s, ns, k, v, TRUE, "", PyNone,
                     kv_set(DataOf(s), k, v, ns))
    /\ UNCHANGED <<execVars, loaderVars, serviceVars, now, threadVars>>

\* execute_storage_operation(session_id, "get", key=, namespace=)
StoreGetIn(nss, keys) ==
    /\ \E s \in SessionIds, ns \in nss, k \in keys :
         IF Falsy(k) THEN Rejected("get", s, ns, k, PyNone, "Missing key")
         ELSE IF SessionMkdirFails(s) THEN CaughtInGet("get", s, ns, k, PyNone)
         ELSE LET value == kv_get(DataOf(s), k, ns)
              IN IF NotFound(value)
                 THEN KvDone("get", s, ns, k, PyNone, FALSE, "Key not found", PyNone,
                             DataOf(s))
                 ELSE KvDone("get", s, ns, k, PyNone, TRUE, "", value, DataOf(s))
    /\ UNCHANGED <<execVars, loaderVars, serviceVars, now, threadVars>>

\* execute_storage_operation(session_id, "delete", key=, namespace=)
StoreDeleteIn(nss, keys) ==
    /\ \E s \in SessionIds, ns \in nss, k \in keys :
         IF Falsy(k) THEN Rejected("delete", s, ns, k, PyNone, "Missing key")
         ELSE IF SessionMkdirFails(s) THEN CaughtInGet("delete", s, ns, k, PyNone)
         ELSE LET d == kv_delete(DataOf(s), k, ns)
              IN KvDone("delete", s, ns, k, PyNone, d.deleted, "", PyNone, d.data)
    /\ UNCHANGED <<execVars, loaderVars, serviceVars, now, threadVars>>

\* execute_storage_operation(session_id, "list", namespace=)
StoreListIn(nss) ==
    /\ \E s \in SessionIds, ns \in nss :
         IF SessionMkdirFails(s) THEN CaughtInGet("list", s, ns, PyNone, PyNone)
         ELSE /\ sessions' = SessionsAfterGet(s)
              /\ fsDirs' = DirsAfterGet(s)
              /\ lastOp' = [StoreResult("list", s, ns, PyNone, PyNone, TRUE, "", PyNone,
                                        FALSE)
                              EXCEPT !.info = kv_list(DataOf(s), ns)]
              /\ UNCHANGED fsFiles
    /\ UNCHANGED <<execVars, loaderVars, serviceVars, now, threadVars>>

\* StorageManager.db_query behind execute_storage_operation(session_id, "query",
\* sql=): the connection sets db_path and creates the database file; a statement
\* the engine rejects is answered with success=false by the handler, which does
\* not close the connection
StoreQuery ==
    /\ \E s \in SessionIds, sql \in SqlArgs, finalized \in BOOLEAN :
         IF Falsy(sql)
         THEN finalized /\ Rejected("query", s, "default", PyNone, sql, "Missing SQL query")
         ELSE IF SessionMkdirFails(s)
         THEN finalized /\ CaughtInGet("query", s, "default", PyNone, sql)
         ELSE LET db == DbPathOf(WorkspaceOf(s))
                  opened == WorkspaceOf(s) \in DirsAfterGet(s) /\ db \notin DirsAfterGet(s)
                  raised == sql = "not sql"
              IN /\ sessions' = [SessionsAfterGet(s) EXCEPT ![s].db_path = db]
                 /\ fsDirs' = DirsAfterGet(s)
                 /\ fsFiles' = IF opened /\ db \notin DOMAIN fsFiles
                               THEN fsFiles @@ (db :> "sqlite") ELSE fsFiles
                 /\ (raised \/ ~opened \/ finalized)
                 /\ lastOp' =
                      IF ~opened
                      THEN StoreResult("query", s, "default", PyNone, sql, FALSE,
                                       "unable to open database file", PyNone, FALSE)
                      ELSE [StoreResult("query", s, "default", PyNone, sql, ~raised,
                                        IF raised THEN "syntax error" ELSE "",
                                        PyNone, FALSE)
                              EXCEPT !.conn = ConnAtReturn(raised, finalized)]
    /\ UNCHANGED <<execVars, loaderVars, serviceVars, now, threadVars>>

\* the number of keys over all namespaces: sum(len(ns) for ns in data.values())
RECURSIVE KeysCount(_, _)
KeysCount(data, nss) ==
    IF nss = {} THEN 0
    ELSE LET ns == CHOOSE x \in nss : TRUE
         IN Cardinality(DOMAIN data[ns]) + KeysCount(data, nss \ {ns})

\* StorageManager.get_session_info, as the GET /api/sessions/{id} route calls it
get_session_info(session_id) ==
    IF SessionMkdirFails(session_id)
    THEN /\ lastOp' = StoreResult("get_session_info", session_id, "default", PyNone,
                                  PyNone, FALSE, "FileExistsError", PyNone, TRUE)
         /\ UNCHANGED <<sessions, fsDirs, fsFiles>>
    ELSE /\ sessions' = SessionsAfterGet(session_id)
         /\ fsDirs' = DirsAfterGet(session_id)
         /\ UNCHANGED fsFiles
         /\ LET session == sessions'[session_id]
            IN lastOp' =
                 [StoreResult("get_session_info", session_id, "default", PyNone,
                              PyNone, TRUE, "", PyNone, FALSE)
                    EXCEPT !.info =
                      [created_at |-> session.created_at,
                       namespaces |-> DOMAIN session.data,
                       kv_keys_count |-> KeysCount(session.data, DOMAIN session.data),
                       has_database |-> /\ session.db_path # None
                                        /\ session.db_path \in DOMAIN fsFiles]]

GetSessionInfo ==
    /\ \E s \in SessionIds : get_session_info(s)
    /\ UNCHANGED <<execVars, loaderVars, serviceVars, now, threadVars>>

\* _destroy_session for each id of ids that is in the table: the workspace tree is
\* removed, then the entry
DestroySessions(ids) ==
    LET gone == ids \cap DOMAIN sessions
    IN /\ sessions' = [x \in DOMAIN sessions \ gone |-> sessions[x]]
       /\ fsDirs' = {d \in fsDirs :
                        \A id \in gone : ~Within(d, sessions[id].workspace_dir)}
       /\ fsFiles' = [q \in {f \in DOMAIN fsFiles :
                               \A id \in gone : ~Within(f, sessions[id].workspace_dir)}
                         |-> fsFiles[q]]

\* DELETE /api/sessions/{session_id}
DeleteSession ==
    /\ \E s \in SessionIds :
         /\ DestroySessions({s})
         /\ lastOp' = StoreResult("delete_session", s, "default", PyNone, PyNone, TRUE,
                                  "", PyNone, FALSE)
    /\ UNCHANGED <<execVars, loaderVars, serviceVars, now, threadVars>>

\* StorageManager.cleanup_expired_sessions
CleanupExpired ==
    /\ LET expired == {sid \in DOMAIN sessions : Expired(sessions[sid], now)}
       IN /\ DestroySessions(expired)
          /\ lastOp' = [StoreResult("cleanup_expired_sessions", <<>>, "default", PyNone,
                                    PyNone, TRUE, "", PyNone, FALSE)
                          EXCEPT !.info = [expired |-> expired, at |-> now]]
    /\ UNCHANGED <<execVars, loaderVars, serviceVars, now, threadVars>>

\* the path strings of the file operations made next to the other storage calls
StorePaths == {<<"a">>}

StoreFileWrite ==
    /\ \E s \in SessionIds, p \in StorePaths, c \in Contents : file_write(s, p, c)
    /\ UNCHANGED <<execVars, loaderVars, serviceVars, now, threadVars>>

StoreFileRead ==
    /\ \E s \in SessionIds, p \in StorePaths : file_read(s, p)
    /\ UNCHANGED <<execVars, loaderVars, serviceVars, now, threadVars>>

StoreFileList ==
    /\ \E s \in SessionIds, p \in StorePaths : file_list(s, p)
    /\ UNCHANGED <<execVars, loaderVars, serviceVars, now, threadVars>>

\* The key-value operations with every argument, and the delete route
StoreSet == StoreSetIn(Namespaces, KeyArgs, ValueArgs)
StoreGet == StoreGetIn(Namespaces, KeyArgs)
StoreDelete == StoreDeleteIn(Namespaces, KeyArgs)
StoreList == StoreListIn(Namespaces)

InitStore == InitStorage /\ ExecIdle /\ LoaderIdle /\ ServicesIdle

NextStore ==
    \/ StoreSet
    \/ StoreGet
    \/ StoreDelete
    \/ StoreList
    \/ DeleteSession

SpecStore == InitStore /\ [][NextStore]_vars

\* The life of sessions: every kind of storage call (the key-value calls on one
\* key of the default namespace), the delete route, the sweep and the clock
SweepSet == StoreSetIn({"default"}, Keys, {"v"})
SweepGet == StoreGetIn({"default"}, Keys)
SweepDelete == StoreDeleteIn({"default"}, Keys)
SweepList == StoreListIn({"default"})

InitSweep == InitStorage /\ ExecIdle /\ LoaderIdle /\ ServicesIdle

NextSweep ==
    \/ SweepSet
    \/ SweepGet
    \/ SweepDelete
    \/ SweepList
    \/ StoreQuery
    \/ GetSessionInfo
    \/ DeleteSession
    \/ CleanupExpired
    \/ StoreFileWrite
    \/ StoreFileRead
    \/ StoreFileList
    \/ Tick

SpecSweep == InitSweep /\ [][NextSweep]_vars

\* the step is a storage call of the kind op
StepOf(op) == lastOp'.op = op /\ lastOp' # lastOp

\* the session of id is older than the TTL
OlderThanTTL(id) == now - sessions[id].created_at > session_ttl

\* nothing of the workspace of id is on disk after the step
WorkspaceGone(id) ==
    /\ \A d \in fsDirs' : ~Within(d, WorkspaceOf(id))
    /\ \A f \in DOMAIN fsFiles' : ~Within(f, WorkspaceOf(id))

\* C14: a sweep removes every session older than the TTL with its workspace tree
\* and database file and leaves every other session as it was; get_session_info
\* for a swept id, called next, reports a session created now with only the
\* empty default namespace, no key and no database.
C14_SweepRemovesExpiredOnly ==
    [][/\ StepOf("cleanup_expired_sessions") =>
            \A id \in DOMAIN sessions :
                IF OlderThanTTL(id)
                THEN id \notin DOMAIN sessions' /\ WorkspaceGone(id)
                ELSE id \in DOMAIN sessions' /\ sessions'[id] = sessions[id]
       /\ (/\ lastOp.op = "cleanup_expired_sessions"
           /\ StepOf("get_session_info")
           /\ lastOp'.session \in lastOp.info.expired) =>
              /\ lastOp'.success
              /\ lastOp'.info = [created_at |-> now, namespaces |-> {"default"},
                                 kv_keys_count |-> 0, has_database |-> FALSE]
              /\ sessions'[lastOp'.session].data = ("default" :> EmptyDict)]_vars

\* witness of C14: a sweep has removed the expired session "a" while the younger
\* session "ab" is still there with its key
C14_Witness ==
    /\ lastOp.op = "cleanup_expired_sessions"
    /\ lastOp.info.expired = {<<"a">>}
    /\ <<"a">> \notin DOMAIN sessions
    /\ <<"a", "b">> \in DOMAIN sessions
    /\ "k" \in DOMAIN sessions[<<"a", "b">>].data["default"]

\* C15: a step that is neither the delete route nor a sweep keeps every session:
\* its entry, creation time and database path stay, its data changes only by a
\* key-value set or delete on that session, and a get on a session older than
\* the TTL still returns the stored value.
C15_OnlyDeleteAndSweepRemove ==
    [][\A id \in DOMAIN sessions :
          (~StepOf("delete_session") /\ ~StepOf("cleanup_expired_sessions")) =>
              /\ id \in DOMAIN sessions'
              /\ sessions'[id].created_at = sessions[id].created_at
              /\ sessions[id].db_path # None => sessions'[id].db_path = sessions[id].db_path
              /\ sessions'[id].data # sessions[id].data =>
                    (lastOp'.session = id /\ (StepOf("set") \/ StepOf("delete")))
              /\ (StepOf("get") /\ lastOp'.session = id
                    /\ lastOp'.key \in DOMAIN sessions[id].data[lastOp'.namespace]) =>
                    (lastOp'.success
                        /\ lastOp'.ret = sessions[id].data[lastOp'.namespace][lastOp'.key])]_vars

\* witness of C15: a get on a session older than the TTL has returned its value
C15_Witness ==
    /\ lastOp.op = "get"
    /\ lastOp.success
    /\ lastOp.ret = "v"
    /\ lastOp.session \in DOMAIN sessions
    /\ OlderThanTTL(lastOp.session)

\* C16: get_session_info leaves the session table and the directories and files
\* on disk as they were, also for an id that is not in the table.
C16_InfoChangesNothing ==
    [][StepOf("get_session_info") =>
          (sessions' = sessions /\ fsDirs' = fsDirs /\ fsFiles' = fsFiles)]_vars

\* the value stored for key k of namespace ns of session s (PyNone: none)
Stored(s, ns, k) ==
    IF /\ s \in DOMAIN sessions
       /\ ns \in DOMAIN sessions[s].data
       /\ k \in DOMAIN sessions[s].data[ns]
    THEN sessions[s].data[ns][k] ELSE PyNone

\* the same for the state after the step
StoredAfter(s, ns, k) ==
    IF /\ s \in DOMAIN sessions'
       /\ ns \in DOMAIN sessions'[s].data
       /\ k \in DOMAIN sessions'[s].data[ns]
    THEN sessions'[s].data[ns][k] ELSE PyNone

\* the step is a call of the kind op for (s, ns, k) that reached the manager
StepOn(op, s, ns, k) ==
    /\ StepOf(op)
    /\ lastOp'.session = s /\ lastOp'.namespace = ns /\ lastOp'.key = k

\* C17: a set of (s, ns, k) to v stores v, a following get returns the stored
\* value, which stays until a set or delete of that key or the destruction of
\* s, and after a delete the key has no value.
C17_GetReturnsLatestSet ==
    [][\A s \in SessionIds, ns \in Namespaces, k \in Keys :
          /\ (StepOn("set", s, ns, k) /\ lastOp'.success) =>
                StoredAfter(s, ns, k) = lastOp'.value
          /\ StepOn("delete", s, ns, k) => StoredAfter(s, ns, k) = PyNone
          /\ (StepOn("get", s, ns, k) /\ Stored(s, ns, k) # PyNone) =>
                (lastOp'.success /\ lastOp'.ret = Stored(s, ns, k))
          /\ StoredAfter(s, ns, k) # Stored(s, ns, k) =>
                \/ StepOn("set", s, ns, k)
                \/ StepOn("delete", s, ns, k)
                \/ (StepOf("delete_session") /\ lastOp'.session = s)]_vars

\* witness of C17: a get has returned the value "v" stored in namespace "n"
C17_Witness ==
    /\ lastOp.op = "get"
    /\ lastOp.success
    /\ lastOp.ret = "v"
    /\ lastOp.namespace = "n"
    /\ Stored(lastOp.session, "n", "k") = "v"

\* C18: a get for a key without a stored value (never set, deleted, or in a
\* namespace that is not there) returns success=false and 'Key not found', and a
\* get for a key whose stored value is the empty string returns success and that
\* value.
C18_NotFoundDistinctFromEmpty ==
    [][\A s \in SessionIds, ns \in Namespaces, k \in Keys :
          StepOn("get", s, ns, k) =>
              IF Stored(s, ns, k) = PyNone
              THEN /\ ~lastOp'.success
                   /\ lastOp'.error = "Key not found"
                   /\ lastOp'.ret = PyNone
              ELSE /\ lastOp'.success
                   /\ lastOp'.error = ""
                   /\ lastOp'.ret = Stored(s, ns, k)]_vars

\* witness of C18: a get has returned success with the empty string
C18_Witness ==
    /\ lastOp.op = "get"
    /\ lastOp.success
    /\ lastOp.ret = ""
    /\ Stored(lastOp.session, lastOp.namespace, lastOp.key) = ""

\* C19: a set or delete on (s, ns) leaves the keys and the existence of every
\* other namespace of s and of every other session as they were, and a set into a
\* namespace that is not there creates it with exactly the written key.
C19_KvScopedToNamespace ==
    [][(StepOf("set") \/ StepOf("delete")) =>
          LET s == lastOp'.session
              ns == lastOp'.namespace
          IN /\ \A s2 \in SessionIds, ns2 \in Namespaces :
                   (s2 # s \/ ns2 # ns) =>
                      /\ \A k2 \in Keys : StoredAfter(s2, ns2, k2) = Stored(s2, ns2, k2)
                      /\ s2 \in DOMAIN sessions =>
                            /\ s2 \in DOMAIN sessions'
                            /\ ns2 \in DOMAIN sessions'[s2].data
                                  <=> ns2 \in DOMAIN sessions[s2].data
             /\ (/\ StepOf("set")
                 /\ lastOp'.success
                 /\ (s \notin DOMAIN sessions \/ ns \notin DOMAIN sessions[s].data)) =>
                    sessions'[s].data[ns] = (lastOp'.key :> lastOp'.value)]_vars

\* witness of C19: a set has created namespace "n" with its one key while the
\* default namespace of the session keeps another value for the same key
C19_Witness ==
    /\ lastOp.op = "set"
    /\ lastOp.namespace = "n"
    /\ lastOp.success
    /\ lastOp.session \in DOMAIN sessions
    /\ "n" \in DOMAIN sessions[lastOp.session].data
    /\ sessions[lastOp.session].data["n"] = ("k" :> "v")
    /\ Stored(lastOp.session, "default", "k") = ""

\* C20: no storage operation raises an exception to its caller; a file error is
\* answered with a result of success=false and an error text.
C20_StorageNeverRaises ==
    lastOp.error # "raised FileExistsError"

\* C21: every database connection opened by db_query is closed before db_query
\* returns, when the statement succeeds and when the engine rejects it: no call
\* returns with its connection still open.
C21_ConnectionClosedOnReturn ==
    lastOp.op = "query" => lastOp.conn \in {"none", "closed"}

-----------------------------------------------------------------------------
(* tool_loader.py: ToolLoader over the TOOL.md files of its tools directory *)

\* number of TOOL.md files in the tools directory
MaxDescriptors == 2

\* the values yaml.safe_load produces, tagged with their Python type
YNull == [t |-> "null"]
YStr(s) == [t |-> "str", v |-> s]
YBool(b) == [t |-> "bool", v |-> b]
YInt(n) == [t |-> "int", v |-> n]
YList(seq) == [t |-> "list", v |-> seq]
YMap(f) == [t |-> "map", v |-> f]
\* yaml.safe_load raised YAMLError
YError == [t |-> "error"]

\* bool(x)
Truthy(y) ==
    CASE y.t = "null" -> FALSE
      [] y.t = "bool" -> y.v
      [] y.t = "str" -> y.v # ""
      [] y.t = "int" -> y.v # 0
      [] y.t = "list" -> Len(y.v) # 0
      [] y.t = "map" -> DOMAIN y.v # {}
      [] OTHER -> FALSE

\* hash(x) does not raise TypeError: lists and dicts are unhashable
Hashable(y) == y.t \notin {"list", "map"}

\* dict.get(key, default): the default is returned only when the key is absent
DictGet(d, key, default) == IF key \in DOMAIN d THEN d[key] ELSE default

\* d[key] = value
Put(d, key, value) == (key :> value) @@ d

\* a TOOL.md file: whether FRONTMATTER_PATTERN matches its text and what
\* yaml.safe_load makes of the block between the two --- lines
ToolFile(match, loads) == [match |-> match, loads |-> loads]

\* a metadata mapping with a name and nothing else
Named(name) == "name" :> YStr(name)

\* parameter entries of a descriptor
ParamP == YMap(("name" :> YStr("p")) @@ ("type" :> YStr("string")) @@
               ("required" :> YBool(TRUE)))
ParamQ == YMap(("name" :> YStr("q")) @@ ("type" :> YStr("integer")) @@
               ("default" :> YInt(1)))
ParamR == YMap(("name" :> YStr("r")) @@ ("required" :> YBool(TRUE)) @@
               ("enum" :> YList(<<YStr("x"), YStr("y")>>)))
\* a second parameter named p, not required
ParamP2 == YMap(("name" :> YStr("p")) @@ ("type" :> YStr("integer")))

\* descriptors parse_tool_file makes no definition of: no frontmatter, YAML that
\* does not parse, an empty block, a block that is a list, an empty
\* `parameters:`, an empty `sandbox:`
MalformedFiles ==
    { ToolFile(FALSE, YNull),
      ToolFile(TRUE, YError),
      ToolFile(TRUE, YNull),
      ToolFile(TRUE, YList(<<YStr("t1")>>)),
      ToolFile(TRUE, YMap(Named("t1") @@ ("parameters" :> YNull))),
      ToolFile(TRUE, YMap(Named("t1") @@ ("sandbox" :> YNull))) }

\* a descriptor whose name is a YAML list: `name: [t1]`
ListNamedFile == ToolFile(TRUE, YMap("name" :> YList(<<YStr("t1")>>)))

\* descriptors named t1 or t2 with the enabled flag absent, true or false
PlainFiles ==
    {ToolFile(TRUE, YMap(Named(n))) : n \in {"t1", "t2"}}
    \cup {ToolFile(TRUE, YMap(Named(n) @@ ("enabled" :> YBool(b)))) :
             n \in {"t1", "t2"}, b \in BOOLEAN}

\* descriptors named t1 with a sandbox block: empty mapping, one field given,
\* one field left empty, every field given
SandboxFiles ==
    {ToolFile(TRUE, YMap(Named("t1") @@ ("sandbox" :> YMap(sb)))) :
        sb \in { EmptyDict,
                 "timeout" :> YInt(5),
                 "timeout" :> YNull,
                 ("image" :> YStr("img")) @@ ("timeout" :> YInt(5)) @@
                 ("memory" :> YStr("1g")) @@ ("cpu_percent" :> YInt(10)) @@
                 ("network" :> YBool(TRUE)) @@ ("read_only" :> YBool(FALSE)) @@
                 ("mount_workspace" :> YBool(TRUE)) }}

\* descriptors named t2 with a parameter list
ParameterFiles ==
    {ToolFile(TRUE, YMap(Named("t2") @@ ("parameters" :> YList(ps)))) :
        ps \in { <<ParamP, ParamQ, ParamR>>, <<ParamQ, ParamP>>, <<ParamP, ParamP2>> }}

ToolFiles ==
    MalformedFiles \cup {ListNamedFile} \cup PlainFiles \cup SandboxFiles
    \cup ParameterFiles

\* the contents a tools directory may have, in the order of iterdir()
DescriptorSets == UNION {[1..n -> ToolFiles] : n \in 0..MaxDescriptors}

\* the names looked up
LookupNames == {YStr("t1"), YStr("t2"), YStr("")}

\* ToolLoader.discover_tools: the paths of the TOOL.md files, a path being the
\* file's position in the directory listing
discover_tools == [i \in 1..Len(tool_files) |-> i]

\* ToolParameter(name=param_data.get('name', ''), ...)
ToolParameter(param_data) ==
    [name |-> DictGet(param_data, "name", YStr("")),
     type |-> DictGet(param_data, "type", YStr("string")),
     required |-> DictGet(param_data, "required", YBool(FALSE)),
     description |-> DictGet(param_data, "description", YStr("")),
     default |-> DictGet(param_data, "default", YNull),
     enum |-> DictGet(param_data, "enum", YNull)]

\* the loop over metadata.get('parameters', []): iterating a value that is not
\* iterable, or calling .get on an entry that is not a mapping, raises
ParametersOf(metadata) ==
    LET p == DictGet(metadata, "parameters", YList(<<>>))
    IN IF p.t = "list" /\ \A i \in 1..Len(p.v) : p.v[i].t = "map"
       THEN [raised |-> FALSE,
             parameters |-> [i \in 1..Len(p.v) |-> ToolParameter(p.v[i].v)]]
       ELSE IF p.t \in {"str", "map"} /\ ~Truthy(p)
       THEN [raised |-> FALSE, parameters |-> <<>>]
       ELSE [raised |-> TRUE, parameters |-> <<>>]

\* the defaults of the SandboxConfig fields
SandboxDefaults ==
    [image |-> YStr("sandbox-executor:latest"), timeout |-> YInt(30),
     memory |-> YStr("256m"), cpu_percent |-> YInt(50), network |-> YBool(FALSE),
     read_only |-> YBool(TRUE), mount_workspace |-> YBool(FALSE)]

SandboxFields == DOMAIN SandboxDefaults

\* SandboxConfig(image=sandbox_data.get('image', 'sandbox-executor:latest'), ...)
SandboxConfigOf(sandbox_data) ==
    [f \in SandboxFields |-> DictGet(sandbox_data, f, SandboxDefaults[f])]

\* parse_tool_file returned None
NoDefinition == [ok |-> FALSE]

\* ToolLoader.parse_tool_file: the ToolDefinition, or None when the pattern does
\* not match, the metadata is falsy, or anything in the try body raises
parse_tool_file(file_path, file) ==
    IF ~file.match THEN NoDefinition
    ELSE IF file.loads.t = "error" THEN NoDefinition
    ELSE IF ~Truthy(file.loads) THEN NoDefinition
    ELSE IF file.loads.t # "map" THEN NoDefinition
    ELSE LET metadata == file.loads.v
             params == ParametersOf(metadata)
             sandbox_data == DictGet(metadata, "sandbox", YMap(EmptyDict))
         IN IF params.raised THEN NoDefinition
            ELSE IF sandbox_data.t # "map" THEN NoDefinition
            ELSE [ok |-> TRUE,
                  tool |-> [name |-> DictGet(metadata, "name", YStr("")),
                            description |-> DictGet(metadata, "description", YStr("")),
                            version |-> DictGet(metadata, "version", YStr("1.0.0")),
                            enabled |-> DictGet(metadata, "enabled", YBool(TRUE)),
                            parameters |-> params.parameters,
                            sandbox |-> SandboxConfigOf(sandbox_data.v),
                            path |-> file_path]]

\* the definition parse_tool_file makes of the file at a path of the directory
Parsed(file_path) == parse_tool_file(file_path, tool_files[file_path])

\* a loop body of load_all that keeps disabled definitions too
load_one_any(tools_map, file_path) ==
    LET r == Parsed(file_path)
    IN IF r.ok
       THEN IF Hashable(r.tool.name)
            THEN [raised |-> FALSE, tools |-> Put(tools_map, r.tool.name, r.tool)]
            ELSE [raised |-> TRUE, tools |-> tools_map]
       ELSE [raised |-> FALSE, tools |-> tools_map]

\* a loop body of load_all that keeps the first definition of a name
load_one_first(tools_map, file_path) ==
    LET r == Parsed(file_path)
    IN IF r.ok /\ Truthy(r.tool.enabled)
       THEN IF Hashable(r.tool.name)
            THEN [raised |-> FALSE,
                  tools |-> IF r.tool.name \in DOMAIN tools_map THEN tools_map
                            ELSE Put(tools_map, r.tool.name, r.tool)]
            ELSE [raised |-> TRUE, tools |-> tools_map]
       ELSE [raised |-> FALSE, tools |-> tools_map]

\* one turn of the loop of load_all: `if tool and tool.enabled:
\* self.tools[tool.name] = tool`; the assignment raises TypeError for a name
\* that is not hashable, outside any try
load_one(tools_map, file_path) ==
    LET r == Parsed(file_path)
    IN IF r.ok /\ Truthy(r.tool.enabled)
       THEN IF Hashable(r.tool.name)
            THEN [raised |-> FALSE, tools |-> Put(tools_map, r.tool.name, r.tool)]
            ELSE [raised |-> TRUE, tools |-> tools_map]
       ELSE [raised |-> FALSE, tools |-> tools_map]

\* the loop of load_all over the files left, up to the turn that raises
RECURSIVE load_from(_, _)
load_from(tools_map, todo) ==
    IF todo = <<>> THEN [raised |-> FALSE, tools |-> tools_map]
    ELSE LET one == load_one(tools_map, Head(todo))
         IN IF one.raised THEN one ELSE load_from(one.tools, Tail(todo))

\* the entry of the properties dict for one parameter
PropertyOf(param) ==
    ("type" :> param.type) @@ ("description" :> param.description)
    @@ (IF Truthy(param.enum) THEN "enum" :> param.enum ELSE EmptyDict)
    @@ (IF param.default # YNull THEN "default" :> param.default ELSE EmptyDict)

\* the properties dict after the loop over the parameters:
\* properties[param.name] = prop
RECURSIVE PropertiesOf(_)
PropertiesOf(parameters) ==
    IF parameters = <<>> THEN EmptyDict
    ELSE LET n == Len(parameters)
         IN Put(PropertiesOf(SubSeq(parameters, 1, n - 1)), parameters[n].name,
                PropertyOf(parameters[n]))

\* the required list after the loop: the names appended for `if param.required`
RECURSIVE RequiredOf(_)
RequiredOf(parameters) ==
    IF parameters = <<>> THEN <<>>
    ELSE IF Truthy(Head(parameters).required)
    THEN <<Head(parameters).name>> \o RequiredOf(Tail(parameters))
    ELSE RequiredOf(Tail(parameters))

\* ToolDefinition.to_openai_tool
to_openai_tool(tool) ==
    [type |-> "function",
     function |-> [name |-> tool.name, description |-> tool.description,
                   parameters |-> [type |-> "object",
                                   properties |-> PropertiesOf(tool.parameters),
                                   required |-> RequiredOf(tool.parameters)]]]

\* what a lookup returns from a tool map: ToolLoader.get_tool, the summaries of
\* get_tools_summary, the function descriptors of get_openai_tools (under the
\* names of their tools)
LookupOn(op, name, tools_map) ==
    CASE op = "get_tool" ->
           [found |-> name \in DOMAIN tools_map,
            names |-> {},
            value |-> IF name \in DOMAIN tools_map
                      THEN [ok |-> TRUE, tool |-> tools_map[name]] ELSE NoDefinition]
      [] op = "list_tools" ->
           [found |-> TRUE,
            names |-> {tools_map[k].name : k \in DOMAIN tools_map},
            value |-> [k \in DOMAIN tools_map |->
                          [name |-> tools_map[k].name,
                           description |-> tools_map[k].description,
                           version |-> tools_map[k].version]]]
      [] op = "get_openai_tools" ->
           [found |-> TRUE,
            names |-> {tools_map[k].name : k \in DOMAIN tools_map},
            value |-> [k \in DOMAIN tools_map |-> to_openai_tool(tools_map[k])]]

\* a lookup on the loader's map as it is now
Lookup(op, name) ==
    /\ lookup' = [op |-> op, name |-> name, during |-> load.pc, raised |-> FALSE,
                  old |-> load.old] @@ LookupOn(op, name, loader_tools)
    /\ UNCHANGED <<tool_files, loader_tools, load>>
    /\ UNCHANGED <<storageVars, execVars, serviceVars>>

\* ToolLoader.get_tool
GetTool == \E name \in LookupNames : Lookup("get_tool", name)

\* ToolLoader.get_tools_summary
ListTools == Lookup("list_tools", YStr(""))

\* ToolLoader.get_openai_tools
GetOpenaiTools == Lookup("get_openai_tools", YStr(""))

\* ToolLoader.load_all as one call: the map is emptied and filled from the
\* files; a turn that raises ends the call with the map as it then is
LoadAll ==
    /\ load.pc # "loading"
    /\ LET r == load_from(<<>>, discover_tools)
       IN /\ loader_tools' = r.tools
          /\ load' = [pc |-> IF r.raised THEN "raised" ELSE "returned",
                      todo |-> <<>>, old |-> loader_tools]
    /\ UNCHANGED <<tool_files, lookup>>
    /\ UNCHANGED <<storageVars, execVars, serviceVars>>

\* a ToolLoader constructed on a tools directory
InitLoader ==
    /\ InitStorage /\ ExecIdle /\ ServicesIdle
    /\ tool_files \in DescriptorSets
    /\ loader_tools = <<>>
    /\ load = NoLoad
    /\ lookup = NoLookup

NextLoader == LoadAll \/ GetTool \/ ListTools \/ GetOpenaiTools

SpecLoader == InitLoader /\ [][NextLoader]_vars

\* load_all in the steps another thread can observe: self.tools = {}
LoadBegin ==
    /\ load.pc # "loading"
    /\ loader_tools' = <<>>
    /\ load' = [pc |-> "loading", todo |-> discover_tools, old |-> loader_tools]
    /\ UNCHANGED <<tool_files, lookup>>
    /\ UNCHANGED <<storageVars, execVars, serviceVars>>

\* one turn of the loop of load_all
LoadStep ==
    /\ load.pc = "loading" /\ load.todo # <<>>
    /\ LET one == load_one(loader_tools, Head(load.todo))
       IN /\ loader_tools' = one.tools
          /\ load' = IF one.raised THEN [load EXCEPT !.pc = "raised", !.todo = <<>>]
                     ELSE [load EXCEPT !.todo = Tail(load.todo)]
    /\ UNCHANGED <<tool_files, lookup>>
    /\ UNCHANGED <<storageVars, execVars, serviceVars>>

\* return self.tools
LoadEnd ==
    /\ load.pc = "loading" /\ load.todo = <<>>
    /\ load' = [load EXCEPT !.pc = "returned"]
    /\ UNCHANGED <<tool_files, loader_tools, lookup>>
    /\ UNCHANGED <<storageVars, execVars, serviceVars>>

NextReload == LoadBegin \/ LoadStep \/ LoadEnd \/ GetTool \/ ListTools \/ GetOpenaiTools

SpecReload == InitLoader /\ [][NextReload]_vars

-----------------------------------------------------------------------------
(* Properties of the tool loader *)

\* the file at a path makes a definition that load_all keeps
LoadsEnabled(i) == Parsed(i).ok /\ Truthy(Parsed(i).tool.enabled)

\* the names of the descriptors that parse and are enabled
EnabledNames == {Parsed(i).tool.name : i \in {j \in DOMAIN tool_files : LoadsEnabled(j)}}

\* the last path in discovery order whose descriptor is enabled and has the name
LastOf(name) ==
    CHOOSE i \in DOMAIN tool_files :
        /\ LoadsEnabled(i) /\ Parsed(i).tool.name = name
        /\ \A j \in DOMAIN tool_files :
              LoadsEnabled(j) /\ Parsed(j).tool.name = name => j <= i

\* C22: whatever malformed descriptors the directory holds, load_all does not
\* raise, and the map it returns has an entry for every descriptor that parses
\* and is enabled.
C22_MalformedNeverBlocksSiblings ==
    /\ load.pc # "raised"
    /\ load.pc = "returned" =>
          \A i \in DOMAIN tool_files :
              LoadsEnabled(i) => Parsed(i).tool.name \in DOMAIN loader_tools

\* C23: after load_all the map has a name exactly when some descriptor with that
\* name parsed and is enabled, every definition in it is enabled, and get_tool,
\* the tool listing and the function-schema listing give nothing else.
C23_MapHoldsEnabledParsedOnly ==
    load.pc = "returned" =>
        /\ DOMAIN loader_tools = EnabledNames
        /\ \A k \in DOMAIN loader_tools : Truthy(loader_tools[k].enabled)
        /\ (lookup.during = "returned" /\ lookup.op = "get_tool") =>
              /\ lookup.found = (lookup.name \in EnabledNames)
              /\ lookup.found => Truthy(lookup.value.tool.enabled)
        /\ (lookup.during = "returned" /\ lookup.op \in {"list_tools", "get_openai_tools"})
              => lookup.names = EnabledNames

\* witness of C23: load_all has returned a map with a tool in it, and get_tool
\* for the name of a disabled descriptor has found nothing
C23_Witness ==
    /\ load.pc = "returned" /\ DOMAIN loader_tools # {}
    /\ lookup.op = "get_tool" /\ lookup.during = "returned" /\ ~lookup.found
    /\ \E i \in DOMAIN tool_files :
          /\ Parsed(i).ok /\ ~Truthy(Parsed(i).tool.enabled)
          /\ Parsed(i).tool.name = lookup.name

\* C24: every definition of the map is stored under its own name, so no two
\* definitions of a loaded set share a name, and the definition kept for a name
\* is the one of the last enabled descriptor with that name in discovery order.
C24_LaterDescriptorWins ==
    load.pc = "returned" =>
        \A k \in DOMAIN loader_tools :
            /\ loader_tools[k].name = k
            /\ loader_tools[k] = Parsed(LastOf(k)).tool

\* witness of C24: two enabled descriptors with one name and different sandbox
\* policies were loaded, and the map holds the definition of the later file
C24_Witness ==
    /\ load.pc = "returned"
    /\ \E i \in DOMAIN tool_files : \E j \in DOMAIN tool_files :
          /\ i < j /\ LoadsEnabled(i) /\ LoadsEnabled(j)
          /\ Parsed(i).tool.name = Parsed(j).tool.name
          /\ Parsed(i).tool.sandbox # Parsed(j).tool.sandbox
          /\ loader_tools[Parsed(j).tool.name].path = j

\* C25: a lookup made while load_all runs on a loader that already holds tools
\* returns what it would return from the complete old map or from the complete
\* new map.
C25_LookupSeesOldOrNewMap ==
    (lookup.during = "loading" /\ DOMAIN lookup.old # {}) =>
        [found |-> lookup.found, names |-> lookup.names, value |-> lookup.value]
            \in { LookupOn(lookup.op, lookup.name, lookup.old),
                  LookupOn(lookup.op, lookup.name,
                           load_from(<<>>, discover_tools).tools) }

\* C26: in every function descriptor the required list is the names of the
\* tool's parameters whose required flag is set, in parameter order, and the
\* properties hold exactly one entry per parameter.
C26_RequiredAndProperties ==
    lookup.op = "get_openai_tools" =>
        \A k \in DOMAIN lookup.value \cap DOMAIN loader_tools :
            LET params == loader_tools[k].parameters
                flagged == SelectSeq(params, LAMBDA p : Truthy(p.required))
                schema == lookup.value[k].function.parameters
            IN /\ schema.required = [i \in 1..Len(flagged) |-> flagged[i].name]
               /\ \A i \in 1..Len(params) : params[i].name \in DOMAIN schema.properties
               /\ Cardinality(DOMAIN schema.properties) = Len(params)

\* the descriptor gives the sandbox field a value
GivesSandboxField(file, f) ==
    /\ "sandbox" \in DOMAIN file.loads.v
    /\ file.loads.v["sandbox"].t = "map"
    /\ f \in DOMAIN file.loads.v["sandbox"].v
    /\ file.loads.v["sandbox"].v[f] # YNull

\* apart from its sandbox block the descriptor is one that loads: a metadata
\* mapping with a hashable name, a usable parameter list and enabled
LoadsButForSandbox(file) ==
    /\ file.match /\ file.loads.t = "map"
    /\ ~ParametersOf(file.loads.v).raised
    /\ Hashable(DictGet(file.loads.v, "name", YStr("")))
    /\ Truthy(DictGet(file.loads.v, "enabled", YBool(TRUE)))

\* C27: after load_all every such descriptor (that no later descriptor of the
\* same name replaced) is in the map, and each sandbox field it does not give a
\* value has its default there.
C27_UnspecifiedSandboxFieldDefaults ==
    load.pc = "returned" =>
        \A i \in DOMAIN tool_files :
            LET file == tool_files[i]
                name == DictGet(file.loads.v, "name", YStr(""))
            IN (/\ LoadsButForSandbox(file)
                /\ \A j \in DOMAIN tool_files :
                      j > i => ~(Parsed(j).ok /\ Parsed(j).tool.name = name))
               => /\ name \in DOMAIN loader_tools
                  /\ \A f \in SandboxFields :
                        ~GivesSandboxField(file, f)
                           => loader_tools[name].sandbox[f] = SandboxDefaults[f]

-----------------------------------------------------------------------------
(* Properties of execute: the screen's scope, commands, launch failures *)

\* execute(tool, args) has been called for r: directly, or by the HTTP handler
\* once lookup and parameter validation passed (data_storage never reaches it)
ExecuteInvoked(r) ==
    \/ req[r].via = "direct"
    \/ /\ req[r].via = "http" /\ req[r].tool.name # "data_storage"
       /\ \/ pc[r] = "wait"
          \/ pc[r] = "done" /\ result[r].kind = "ExecuteResponse"

Unmappable(r) ==
    \/ /\ req[r].tool.name = "code_execution"
       /\ Get(req[r].args, "language", "python") \notin {"python", "bash", "node"}
    \/ req[r].tool.name \notin {"code_execution", "bash_command", "file_analysis",
                                "web_fetch"}

\* C29: an invocation for which no command can be built returns success=false
\* with the 'Unsupported language' or 'Unknown tool' text and the name at fault,
\* and launches no container.
C29_UnmappableReturnsError ==
    \A r \in Reqs :
        (ExecuteInvoked(r) /\ Unmappable(r)) =>
            /\ pc[r] = "done"
            /\ ~result[r].success
            /\ result[r].output = ""
            /\ result[r].error \in
                  { <<"Unsupported language: ", Get(req[r].args, "language", "python")>>,
                    <<"Unknown tool: ", req[r].tool.name>> }
            /\ trace[r].launches = 0
            /\ container[r].state = "none"
            /\ ~launchCfg[r].launched

\* witness of C29: code_execution in ruby has returned the unsupported-language
\* error
C29_Witness ==
    \E r \in Reqs :
        /\ req[r].tool.name = "code_execution"
        /\ pc[r] = "done"
        /\ result[r].error = <<"Unsupported language: ", "ruby">>
        /\ trace[r].launches = 0

\* client.containers.run raised for r
LaunchFailed(r) ==
    pc[r] = "done" /\ trace[r].launches = 1 /\ trace[r].wait = "none"

\* C30: when the launch of the container fails, execute returns success=false
\* with the failure text and the elapsed time, and no container of the
\* invocation is left.
C30_LaunchFailureLeavesNothing ==
    \A r \in Reqs :
        (ExecuteInvoked(r) /\ LaunchFailed(r)) =>
            /\ ~result[r].success
            /\ result[r].error = <<"", "launch error">>
            /\ result[r].execution_time = "elapsed"
            /\ container[r].state \in {"none", "removed"}

\* C31: when execute returns success, the result's output is the container's
\* standard output and its error is the container's standard error, each stream
\* in its own field.
C31_StreamsKeptApart ==
    \A r \in Reqs :
        (ExecuteReturned(r) /\ result[r].success) =>
            /\ result[r].output = req[r].workload.stdout
            /\ result[r].error = <<"", req[r].workload.stderr>>

\* witness of C31: a run that wrote to both streams and exited with code 0 has
\* returned
C31_Witness ==
    \E r \in Reqs :
        /\ ExecuteReturned(r) /\ result[r].success
        /\ req[r].workload.stdout = "out" /\ req[r].workload.stderr = "err"
        /\ result[r].output = "out"

\* C33: a result is classified as Timeout only when the wait exceeded the policy
\* timeout; a failure of the wait for another reason, or of the log retrieval or
\* decoding after the container exited, is not reported as a Timeout.
C33_TimeoutOnlyWhenWaitTimedOut ==
    \A r \in Reqs :
        (ExecuteReturned(r) /\ TimeoutClassified(result[r])) => trace[r].wait = "timeout"

-----------------------------------------------------------------------------
(* shared/auth.py: the rate limiter of AuthMiddleware *)

\* DGX_RATE_LIMIT: requests per window and client
RATE_LIMIT == 2

\* the 60 seconds of the window, in units of the clock
RateWindow == 2

\* the last reading of the clock
MaxClock == 4

\* AuthMiddleware.PUBLIC_ENDPOINTS
PUBLIC_ENDPOINTS == {"/health", "/", "/docs", "/openapi.json", "/redoc"}

\* the paths requested: a public one and a protected one
RequestPaths == {"/health", "/api/models"}

\* sum(count for _, count in entries)
RECURSIVE SumCounts(_)
SumCounts(entries) ==
    IF entries = <<>> THEN 0 ELSE Head(entries)[2] + SumCounts(Tail(entries))

\* a check_rate_limit that rejects only above the limit
check_rate_limit_above(entries, t) ==
    LET kept == SelectSeq(entries, LAMBDA e : e[1] > t - RateWindow)
        total_requests == SumCounts(kept)
    IN IF total_requests > RATE_LIMIT
       THEN [is_allowed |-> FALSE, remaining |-> 0, entries |-> kept]
       ELSE [is_allowed |-> TRUE, remaining |-> RATE_LIMIT - total_requests - 1,
             entries |-> Append(kept, <<t, 1>>)]

\* check_rate_limit on the client's list at time t: (is_allowed, remaining) and
\* the list it leaves in _rate_limits[client_ip]
check_rate_limit(entries, t) ==
    LET window_start == t - RateWindow
        kept == SelectSeq(entries, LAMBDA e : e[1] > window_start)
        total_requests == SumCounts(kept)
    IN IF total_requests >= RATE_LIMIT
       THEN [is_allowed |-> FALSE, remaining |-> 0, entries |-> kept]
       ELSE [is_allowed |-> TRUE, remaining |-> RATE_LIMIT - total_requests - 1,
             entries |-> Append(kept, <<t, 1>>)]

\* AuthMiddleware.dispatch for one request: public paths pass unchecked, a bad
\* API key is answered 401 before the limiter, a client over the limit 429, and
\* every other request reaches the application
Dispatch ==
    /\ \E ip \in ClientIps, path \in RequestPaths, key_ok \in BOOLEAN :
         IF path \in PUBLIC_ENDPOINTS
         THEN /\ key_ok
              /\ lastReq' = [ip |-> ip, path |-> path, status |-> 200, remaining |-> 0,
                             served |-> TRUE]
              /\ UNCHANGED <<rate_limits, admitted>>
         ELSE IF ~key_ok
         THEN /\ lastReq' = [ip |-> ip, path |-> path, status |-> 401, remaining |-> 0,
                             served |-> FALSE]
              /\ UNCHANGED <<rate_limits, admitted>>
         ELSE LET r == check_rate_limit(rate_limits[ip], clock)
              IN /\ rate_limits' = [rate_limits EXCEPT ![ip] = r.entries]
                 /\ admitted' = IF r.is_allowed
                                THEN [admitted EXCEPT ![ip] = Append(@, clock)]
                                ELSE admitted
                 /\ lastReq' = [ip |-> ip, path |-> path,
                                status |-> IF r.is_allowed THEN 200 ELSE 429,
                                remaining |-> r.remaining, served |-> r.is_allowed]
    /\ UNCHANGED clock
    /\ UNCHANGED <<storageVars, execVars, loaderVars, managerVars>>

\* time passes
ClockTick ==
    /\ clock < MaxClock
    /\ clock' = clock + 1
    /\ UNCHANGED <<rate_limits, admitted, lastReq>>
    /\ UNCHANGED <<storageVars, execVars, loaderVars, managerVars>>

InitAuth == InitStorage /\ ExecIdle /\ LoaderIdle /\ ServicesIdle

NextAuth == Dispatch \/ ClockTick

SpecAuth == InitAuth /\ [][NextAuth]_vars

\* the requests of ip let through in the window that ends at t
AdmittedInWindow(ip, t) ==
    Cardinality({i \in DOMAIN admitted[ip] :
                    admitted[ip][i] > t - RateWindow /\ admitted[ip][i] <= t})

\* C32: in every window of the limiter's length at most RATE_LIMIT requests of
\* one client are let through on protected paths; the limiter's list of a client
\* holds only requests it let through (a rejected request is not counted); and a
\* request changes the list and the admissions of its own client only.
C32_RateLimitPerClientWindow ==
    /\ [](\A ip \in ClientIps : \A t \in 0..MaxClock :
             AdmittedInWindow(ip, t) <= RATE_LIMIT)
    /\ [](\A ip \in ClientIps :
             LET n == Len(rate_limits[ip])
                 k == Len(admitted[ip])
             IN /\ n <= k
                /\ \A i \in 1..n : rate_limits[ip][i] = <<admitted[ip][k - n + i], 1>>)
    /\ [][\A ip \in ClientIps :
             (rate_limits'[ip] # rate_limits[ip] \/ admitted'[ip] # admitted[ip])
                => lastReq'.ip = ip]_vars

\* witness of C32: a client that has used its limit in the current window is
\* answered 429, where the window has moved on since its first admissions and
\* the other client has been served
C32_Witness ==
    /\ lastReq.status = 429
    /\ AdmittedInWindow(lastReq.ip, clock) = RATE_LIMIT
    /\ Len(admitted[lastReq.ip]) > RATE_LIMIT
    /\ \E ip \in ClientIps \ {lastReq.ip} : Len(admitted[ip]) > 0

-----------------------------------------------------------------------------
(* Session ids as callers may send them: get_or_create_session and the        *)
(* destruction of sessions for ids that are not plain names                   *)

\* session ids: a name, a name with a separator, ".", ".." and an absolute path
AnySessionIds == {<<"a">>, <<"a", "/", "b">>, DOT, DOTDOT, <<"/", "x">>}

\* str(self.base_workspace / session_id): pathlib keeps an absolute right operand
\* alone, drops "." components and doubled separators, and keeps ".."
workspace_dir_of(session_id) ==
    LET comps == SelectSeq(Split(pathjoin(base_workspace, session_id)),
                           LAMBDA c : c # <<>> /\ c # DOT)
    IN <<SLASH>> \o Join(comps)

\* the directory the operating system resolves a workspace_dir to
Resolved(workspace_dir) == normpath(workspace_dir)

\* get_or_create_session(session_id) for any id string
GetOrCreateAny ==
    /\ \E id \in AnySessionIds :
         LET dir == Resolved(workspace_dir_of(id))
         IN IF id \in DOMAIN sessions
            THEN /\ UNCHANGED <<sessions, fsDirs>>
                 /\ lastOp' = StoreResult("get_or_create_session", id, "default", PyNone,
                                          PyNone, TRUE, "", PyNone, FALSE)
            ELSE IF dir \in DOMAIN fsFiles \/ BlockedByFile(dir)
            THEN /\ UNCHANGED <<sessions, fsDirs>>
                 /\ lastOp' = StoreResult("get_or_create_session", id, "default", PyNone,
                                          PyNone, FALSE, "FileExistsError", PyNone, TRUE)
            ELSE /\ sessions' = sessions @@ (id :> Session(id, now, workspace_dir_of(id)))
                 /\ fsDirs' = fsDirs \cup {dir} \cup Ancestors(dir)
                 /\ lastOp' = StoreResult("get_or_create_session", id, "default", PyNone,
                                          PyNone, TRUE, "", PyNone, FALSE)
    /\ UNCHANGED fsFiles
    /\ UNCHANGED <<execVars, loaderVars, serviceVars, now, threadVars>>

\* _destroy_session(session_id), from the delete route or from the sweep:
\* shutil.rmtree(session.workspace_dir, ignore_errors=True), then the entry
DestroyAny ==
    /\ \E id \in AnySessionIds :
         /\ IF id \in DOMAIN sessions
            THEN LET dir == Resolved(sessions[id].workspace_dir)
                 IN /\ sessions' = SessionsWithout(id)
                    /\ fsDirs' = DirsAfterRmtree(dir)
                    /\ fsFiles' = FilesAfterRmtree(dir)
            ELSE UNCHANGED <<sessions, fsDirs, fsFiles>>
         /\ lastOp' = StoreResult("destroy_session", id, "default", PyNone, PyNone, TRUE,
                                  "", PyNone, FALSE)
    /\ UNCHANGED <<execVars, loaderVars, serviceVars, now, threadVars>>

\* a file_write into the workspace of a session of the table
WriteAny ==
    /\ \E id \in DOMAIN sessions :
         LET f == Resolved(sessions[id].workspace_dir) \o <<SLASH, "f">>
         IN /\ Resolved(sessions[id].workspace_dir) \in fsDirs
            /\ f \notin fsDirs
            /\ fsFiles' = (f :> "c1") @@ fsFiles
            /\ lastOp' = StoreResult("file_write", id, "default", PyNone, PyNone, TRUE,
                                     "", PyNone, FALSE)
    /\ UNCHANGED <<sessions, fsDirs>>
    /\ UNCHANGED <<execVars, loaderVars, serviceVars, now, threadVars>>

\* a fresh manager; the session ids come from the callers
InitSessionIds ==
    /\ InitStorage /\ ExecIdle /\ LoaderIdle /\ ServicesIdle

NextSessionIds == GetOrCreateAny \/ DestroyAny \/ WriteAny

SpecSessionIds == InitSessionIds /\ [][NextSessionIds]_vars

\* the directory is a strict descendant of the base workspace
BelowBase(dir) == dir # base_workspace /\ Within(dir, base_workspace)

\* C34: every session of the table has a workspace that is a strict descendant
\* of the base workspace, and a destruction removes nothing outside the base
\* workspace and nothing of the workspace of another session.
C34_WorkspaceBelowBase ==
    [][/\ \A id \in DOMAIN sessions' : BelowBase(Resolved(sessions'[id].workspace_dir))
       /\ \A d \in (fsDirs \ fsDirs') \cup (DOMAIN fsFiles \ DOMAIN fsFiles') :
             /\ BelowBase(d)
             /\ \A id \in DOMAIN sessions' :
                   ~Within(d, Resolved(sessions[id].workspace_dir))]_vars

\* C35: when a kv_set returns success, the value is in the session table: a
\* kv_get of the same session, namespace and key made right after the return,
\* with no delete and no destruction after it, gives the value written.
C35_KvSetNeverLost ==
    [][\A t \in Threads :
          (thr[t].op = "kv_set" /\ thr[t].pc = "k_write"
              /\ thr'[t].pc = "done" /\ thr'[t].error = "")
          => /\ thr[t].id \in DOMAIN sessions'
             /\ "k" \in DOMAIN sessions'[thr[t].id].data["default"]
             /\ sessions'[thr[t].id].data["default"]["k"] = "v"]_vars

-----------------------------------------------------------------------------
(* execute_storage_operation with every operation name and with arguments     *)
(* left out                                                                   *)

\* what kwargs.get("path") / kwargs.get("content") may give
PathArgs == {None, <<>>, <<"a">>}
ContentArgs == {PyNone, "c1"}

\* execute_storage_operation(session_id, "file_write", path=, content=)
StoreFileWriteArgs ==
    /\ \E s \in SessionIds, p \in PathArgs, c \in ContentArgs :
         IF p = None \/ p = <<>> \/ c = PyNone
         THEN Rejected("file_write", s, "default", PyNone, PyNone, "Missing path or content")
         ELSE file_write(s, p, c)
    /\ UNCHANGED <<execVars, loaderVars, serviceVars, now, threadVars>>

\* execute_storage_operation(session_id, "file_read", path=)
StoreFileReadArgs ==
    /\ \E s \in SessionIds, p \in PathArgs :
         IF p = None \/ p = <<>>
         THEN Rejected("file_read", s, "default", PyNone, PyNone, "Missing path")
         ELSE file_read(s, p)
    /\ UNCHANGED <<execVars, loaderVars, serviceVars, now, threadVars>>

\* execute_storage_operation(session_id, operation) for a name of no branch
StoreUnknown ==
    /\ \E s \in SessionIds :
         Rejected("frobnicate", s, "default", PyNone, PyNone, "Unknown operation")
    /\ UNCHANGED <<execVars, loaderVars, serviceVars, now, threadVars>>

\* the key-value operations with every namespace and key argument and with
\* the value given or left out
OperationSet == StoreSetIn(Namespaces, KeyArgs, {"v", PyNone})
OperationGet == StoreGetIn(Namespaces, KeyArgs)
OperationDelete == StoreDeleteIn(Namespaces, KeyArgs)

InitOperation == InitStorage /\ ExecIdle /\ LoaderIdle /\ ServicesIdle

NextOperation ==
    \/ OperationSet
    \/ OperationGet
    \/ OperationDelete
    \/ StoreQuery
    \/ StoreFileWriteArgs
    \/ StoreFileReadArgs
    \/ StoreUnknown
    \/ DeleteSession

SpecOperation == InitOperation /\ [][NextOperation]_vars

\* the error strings of the requests execute_storage_operation turns down itself
RejectionErrors ==
    {"Missing key or value", "Missing key", "Missing SQL query",
     "Missing path or content", "Missing path", "Unknown operation"}

\* C37: a storage request rejected for an unknown operation name or for a
\* missing key, value, path, content or SQL argument leaves the session table
\* (sessions, namespaces, database paths) and the disk (directories, files,
\* database files) as they were.
C37_RejectedChangesNothing ==
    [][lastOp'.error \in RejectionErrors => UNCHANGED <<sessions, fsDirs, fsFiles>>]_vars

\* a request was rejected for a session that is not in the table, on a disk
\* without its workspace
C37_Witness ==
    /\ lastOp.error \in RejectionErrors
    /\ lastOp.session \notin DOMAIN sessions
    /\ WorkspaceOf(lastOp.session) \notin fsDirs

-----------------------------------------------------------------------------
(* storage.py: file_write calls in flight while sessions are destroyed and    *)
(* allocated again                                                            *)

\* the file a thread's file_write(id, "f", "c1") writes: _safe_path of "f" in
\* the workspace of the Session object it was given
WrittenFile(id) == WorkspaceOf(id) \o <<SLASH, "f">>

\* file_write: os.makedirs(os.path.dirname(safe_path), exist_ok=True)
WriteMakedirs(t) ==
    /\ thr[t].pc = "w_makedirs"
    /\ fsDirs' = fsDirs \cup {WorkspaceOf(thr[t].id)} \cup Ancestors(WorkspaceOf(thr[t].id))
    /\ Goto(t, "w_open")
    /\ UNCHANGED <<sessions, fsFiles, lastOp, now, lock, allocs, execVars, loaderVars, serviceVars>>

\* file_write: with open(safe_path, 'w') as f: f.write(content); an OSError
\* is returned to the caller as success=false
WriteOpen(t) ==
    /\ thr[t].pc = "w_open"
    /\ fsFiles' = IF WorkspaceOf(thr[t].id) \in fsDirs
                  THEN (WrittenFile(thr[t].id) :> "c1") @@ fsFiles
                  ELSE fsFiles
    /\ Finish(t, thr[t].ret, "")
    /\ UNCHANGED <<sessions, fsDirs, lastOp, now, lock, allocs, execVars, loaderVars, serviceVars>>

InFlightCalls == {"get_or_create_session", "file_write", "delete_session"}

ThreadCallsInFlight(t) == ThreadCalls(t, InFlightCalls)

NextInFlight ==
    \E t \in Threads :
        \/ ThreadCallsInFlight(t)
        \/ Acquire(t)
        \/ GetCheck(t)
        \/ GetCreate(t)
        \/ GetReturn(t)
        \/ WriteMakedirs(t)
        \/ WriteOpen(t)
        \/ DestroyCheck(t)
        \/ DestroyRmtree(t)
        \/ DestroyDel(t)
        \/ ThreadReturns(t)

SpecInFlight == InitThreads /\ [][NextInFlight]_vars

\* the files below the workspace of a session id
FilesIn(files, id) == {f \in DOMAIN files : f # WorkspaceOf(id) /\ Within(f, WorkspaceOf(id))}

\* C36: when get_or_create_session allocates a session for an id that is not in
\* the table, the new session has the empty 'default' namespace only, no database,
\* and a workspace directory without files, also when the id was destroyed
\* earlier while a file_write for it was in flight.
C36_NewSessionStartsEmpty ==
    [][\A id \in SessionIds :
          (id \notin DOMAIN sessions /\ id \in DOMAIN sessions')
          => /\ sessions'[id].data = [default |-> EmptyDict]
             /\ sessions'[id].db_path = None
             /\ FilesIn(fsFiles', id) = {}]_vars

-----------------------------------------------------------------------------
(* model-manager/server.py: start_model, stop_model and list_models as        *)
(* coroutines on one event loop, one step per await, and health_check_loop    *)

\* CACHE_TTL, DEFAULT_STARTUP_TIMEOUT and HEALTH_CHECK_INTERVAL in clock units
CACHE_TTL == 2
DEFAULT_STARTUP_TIMEOUT == 2
HEALTH_CHECK_INTERVAL == 1

\* the model manager touches nothing of the sandbox and of the middleware
ManagerUnchanged == UNCHANGED <<storageVars, execVars, loaderVars, authVars>>

SetTask(c, t) == task' = [task EXCEPT ![c] = t]

\* the request of coroutine c ends with this response
Respond(c, out) == SetTask(c, [task[c] EXCEPT !.pc = "done", !.out = out])

\* the container changes made so far whose start or stop request has returned
SettledBy(c) == IF task[c].effect > history.settled THEN task[c].effect ELSE history.settled

\* invalidate_cache()
invalidate_cache == [models |-> NoSnapshot, timestamp |-> 0]

\* _cache["models"] is not None and (now - _cache["timestamp"]) < CACHE_TTL
CacheFresh(at) == cache.models.set /\ (at - cache.timestamp) < CACHE_TTL

\* _starting_models without the entries of ms
WithoutModels(ms) == [x \in DOMAIN starting_models \ ms |-> starting_models[x]]

\* POST /api/models/{model_id}/start arrives: load_models_config and the await
\* of check_memory_for_model
StartBegin(c, models) ==
    /\ task[c].pc = "idle"
    /\ history.calls < MaxManagerCalls
    /\ \E m \in models :
         SetTask(c, [NoTask EXCEPT !.op = "start", !.model = m, !.pc = "s_memory"])
    /\ history' = [history EXCEPT !.calls = @ + 1]
    /\ UNCHANGED <<starting_models, starting_lock, cache, cache_lock, docker, health, mtime>>
    /\ ManagerUnchanged

\* start_model: 409 when the memory check forbids the start, else
\* invalidate_cache() and the await of get_container_status
StartInvalidate(c) ==
    /\ task[c].pc = "s_memory"
    /\ \E can_start \in BOOLEAN :
         IF can_start
         THEN /\ cache' = invalidate_cache
              /\ SetTask(c, [task[c] EXCEPT !.pc = "s_status"])
         ELSE /\ Respond(c, "409")
              /\ UNCHANGED cache
    /\ UNCHANGED <<starting_models, starting_lock, cache_lock, docker, history, health, mtime>>
    /\ ManagerUnchanged

\* start_model: status = await get_container_status(container_name)
StartStatus(c) ==
    /\ task[c].pc = "s_status"
    /\ LET status == docker[task[c].model]
       IN IF status = "running" THEN Respond(c, "already running")
          ELSE SetTask(c, [task[c] EXCEPT !.pc = IF status = "stopped" THEN "s_rm"
                                                 ELSE "s_launch"])
    /\ UNCHANGED <<starting_models, starting_lock, cache, cache_lock, docker, history, health,
                   mtime>>
    /\ ManagerUnchanged

\* start_model: await async_run_command(["docker", "rm", container_name]); a
\* running container is not removed, and the outcome is not looked at
StartRm(c) ==
    /\ task[c].pc = "s_rm"
    /\ LET m == task[c].model
       IN IF docker[m] = "stopped"
          THEN /\ docker' = [docker EXCEPT ![m] = "not_created"]
               /\ history' = [history EXCEPT !.version = @ + 1]
          ELSE UNCHANGED <<docker, history>>
    /\ SetTask(c, [task[c] EXCEPT !.pc = "s_launch"])
    /\ UNCHANGED <<starting_models, starting_lock, cache, cache_lock, health, mtime>>
    /\ ManagerUnchanged

\* start_model: docker run -d --name container_name ...; the name of an
\* existing container is refused, and a container that was created may fail
\* to start; returncode != 0 is answered with 500
StartLaunch(c) ==
    /\ task[c].pc = "s_launch"
    /\ LET m == task[c].model
       IN IF docker[m] # "not_created"
          THEN /\ Respond(c, "500")
               /\ UNCHANGED <<docker, history>>
          ELSE \E outcome \in {"running", "stopped", "not_created"} :
                 /\ docker' = [docker EXCEPT ![m] = outcome]
                 /\ history' = [history EXCEPT
                                  !.version = IF outcome = "not_created" THEN @ ELSE @ + 1]
                 /\ IF outcome = "running"
                    THEN SetTask(c, [task[c] EXCEPT !.pc = "s_register", !.launched = TRUE,
                                                    !.effect = history.version + 1])
                    ELSE Respond(c, "500")
    /\ UNCHANGED <<starting_models, starting_lock, cache, cache_lock, health, mtime>>
    /\ ManagerUnchanged

\* start_model: await register_starting_model(model_id, port, startup_timeout)
\* and the response
StartRegister(c) ==
    /\ task[c].pc = "s_register"
    /\ starting_lock = "free"
    /\ mtime + DEFAULT_STARTUP_TIMEOUT < MaxMTime
    /\ starting_models' =
         (task[c].model :> [start_time |-> mtime, timeout |-> DEFAULT_STARTUP_TIMEOUT])
         @@ starting_models
    /\ Respond(c, "starting")
    /\ history' = [history EXCEPT !.settled = SettledBy(c)]
    /\ UNCHANGED <<starting_lock, cache, cache_lock, docker, health, mtime>>
    /\ ManagerUnchanged

\* POST /api/models/{model_id}/stop arrives: load_models_config,
\* invalidate_cache() and the await of get_container_status
StopBegin(c, models) ==
    /\ task[c].pc = "idle"
    /\ history.calls < MaxManagerCalls
    /\ \E m \in models :
         SetTask(c, [NoTask EXCEPT !.op = "stop", !.model = m, !.pc = "t_status"])
    /\ cache' = invalidate_cache
    /\ history' = [history EXCEPT !.calls = @ + 1]
    /\ UNCHANGED <<starting_models, starting_lock, cache_lock, docker, health, mtime>>
    /\ ManagerUnchanged

\* stop_model: status = await get_container_status(container_name)
StopStatus(c) ==
    /\ task[c].pc = "t_status"
    /\ IF docker[task[c].model] # "running" THEN Respond(c, "not running")
       ELSE SetTask(c, [task[c] EXCEPT !.pc = "t_stop"])
    /\ UNCHANGED <<starting_models, starting_lock, cache, cache_lock, docker, history, health,
                   mtime>>
    /\ ManagerUnchanged

\* stop_model: await async_run_command(["docker", "stop", container_name])
StopCommand(c) ==
    /\ task[c].pc = "t_stop"
    /\ LET m == task[c].model
       IN IF docker[m] = "not_created"
          THEN /\ Respond(c, "500")
               /\ UNCHANGED <<docker, history>>
          ELSE /\ docker' = [docker EXCEPT ![m] = "stopped"]
               /\ history' = [history EXCEPT
                                !.version = IF docker[m] = "running" THEN @ + 1 ELSE @]
               /\ SetTask(c, [task[c] EXCEPT !.pc = "t_rm",
                                             !.effect = IF docker[m] = "running"
                                                        THEN history.version + 1 ELSE @])
    /\ UNCHANGED <<starting_models, starting_lock, cache, cache_lock, health, mtime>>
    /\ ManagerUnchanged

\* stop_model: await async_run_command(["docker", "rm", container_name])
StopRm(c) ==
    /\ task[c].pc = "t_rm"
    /\ LET m == task[c].model
       IN IF docker[m] = "stopped"
          THEN /\ docker' = [docker EXCEPT ![m] = "not_created"]
               /\ history' = [history EXCEPT !.version = @ + 1]
               /\ SetTask(c, [task[c] EXCEPT !.pc = "t_unregister",
                                             !.effect = history.version + 1])
          ELSE /\ SetTask(c, [task[c] EXCEPT !.pc = "t_unregister"])
               /\ UNCHANGED <<docker, history>>
    /\ UNCHANGED <<starting_models, starting_lock, cache, cache_lock, health, mtime>>
    /\ ManagerUnchanged

\* stop_model: await unregister_starting_model(model_id) and the response
StopUnregister(c) ==
    /\ task[c].pc = "t_unregister"
    /\ starting_lock = "free"
    /\ starting_models' = WithoutModels({task[c].model})
    /\ Respond(c, "stopped")
    /\ history' = [history EXCEPT !.settled = SettledBy(c)]
    /\ UNCHANGED <<starting_lock, cache, cache_lock, docker, health, mtime>>
    /\ ManagerUnchanged

\* GET /api/models arrives: now = time.time() and the first look at the cache
ListBegin(c) ==
    /\ task[c].pc = "idle"
    /\ IF CacheFresh(mtime)
       THEN SetTask(c, [NoTask EXCEPT !.op = "list", !.pc = "done", !.now = mtime,
                                      !.returned = cache.models])
       ELSE SetTask(c, [NoTask EXCEPT !.op = "list", !.pc = "l_lock", !.now = mtime])
    /\ UNCHANGED <<starting_models, starting_lock, cache, cache_lock, docker, history, health,
                   mtime>>
    /\ ManagerUnchanged

\* list_models: async with _cache["lock"], the second look at the cache with
\* the time read on arrival, and the await of get_all_container_statuses
ListAcquire(c) ==
    /\ task[c].pc = "l_lock"
    /\ cache_lock = 0
    /\ IF CacheFresh(task[c].now)
       THEN /\ SetTask(c, [task[c] EXCEPT !.pc = "done", !.returned = cache.models])
            /\ UNCHANGED cache_lock
       ELSE /\ SetTask(c, [task[c] EXCEPT !.pc = "l_docker"])
            /\ cache_lock' = c
    /\ UNCHANGED <<starting_models, starting_lock, cache, docker, history, health, mtime>>
    /\ ManagerUnchanged

\* list_models: container_statuses = await get_all_container_statuses()
ListDocker(c) ==
    /\ task[c].pc = "l_docker"
    /\ SetTask(c, [task[c] EXCEPT !.pc = "l_models",
                                  !.seen = [set |-> TRUE, status |-> docker,
                                            version |-> history.version]])
    /\ UNCHANGED <<starting_models, starting_lock, cache, cache_lock, docker, history, health,
                   mtime>>
    /\ ManagerUnchanged

\* list_models, the status of one model: a running container whose model is in
\* the tracker is "starting" until its endpoint is healthy, and is then taken
\* out of the tracker; a stopped container is taken out of the tracker
StatusOf(m, seen, tracked, is_healthy) ==
    IF seen[m] = "running"
    THEN IF m \in tracked /\ ~is_healthy THEN "starting" ELSE "running"
    ELSE seen[m]

UnregisteredBy(seen, tracked, is_healthy) ==
    {m \in tracked : \/ seen[m] = "stopped"
                     \/ seen[m] = "running" /\ is_healthy[m]}

\* list_models: the loop over the models with its awaits of
\* get_model_startup_info, check_model_health and unregister_starting_model
ListModels(c) ==
    /\ task[c].pc = "l_models"
    /\ starting_lock = "free"
    /\ \E is_healthy \in [ManagerModels -> BOOLEAN] :
         LET tracked == DOMAIN starting_models
             seen == task[c].seen.status
         IN /\ SetTask(c, [task[c] EXCEPT
                             !.pc = "l_store",
                             !.seen.status = [m \in ManagerModels |->
                                                StatusOf(m, seen, tracked, is_healthy[m])]])
            /\ starting_models' = WithoutModels(UnregisteredBy(seen, tracked, is_healthy))
    /\ UNCHANGED <<starting_lock, cache, cache_lock, docker, history, health, mtime>>
    /\ ManagerUnchanged

\* list_models: _cache["models"] = models; _cache["timestamp"] = time.time();
\* return models, leaving the lock
ListStore(c) ==
    /\ task[c].pc = "l_store"
    /\ cache' = [models |-> task[c].seen, timestamp |-> mtime]
    /\ cache_lock' = 0
    /\ SetTask(c, [task[c] EXCEPT !.pc = "done", !.returned = task[c].seen])
    /\ UNCHANGED <<starting_models, starting_lock, docker, history, health, mtime>>
    /\ ManagerUnchanged

\* the client has its response and the coroutine is gone
TaskEnds(c) ==
    /\ task[c].pc = "done"
    /\ SetTask(c, NoTask)
    /\ UNCHANGED <<starting_models, starting_lock, cache, cache_lock, docker, history, health,
                   mtime>>
    /\ ManagerUnchanged

\* time passes
ManagerTick ==
    /\ mtime < MaxMTime
    /\ mtime' = mtime + 1
    /\ UNCHANGED <<starting_models, starting_lock, cache, cache_lock, docker, history, task,
                   health>>
    /\ ManagerUnchanged

\* health_check_loop: await asyncio.sleep(HEALTH_CHECK_INTERVAL)
HealthSleep ==
    /\ health.pc = "sleep"
    /\ health' = [health EXCEPT !.pc = "lock"]
    /\ mtime' = IF mtime + HEALTH_CHECK_INTERVAL <= MaxMTime
                THEN mtime + HEALTH_CHECK_INTERVAL ELSE MaxMTime
    /\ UNCHANGED <<starting_models, starting_lock, cache, cache_lock, docker, history, task>>
    /\ ManagerUnchanged

\* health_check_loop: async with _starting_lock, completed = [] and the start
\* of the loop over _starting_models.items()
HealthAcquire ==
    /\ health.pc = "lock"
    /\ starting_lock = "free"
    /\ starting_lock' = "health"
    /\ health' = [pc |-> "check", todo |-> DOMAIN starting_models, completed |-> {}]
    /\ UNCHANGED <<starting_models, cache, cache_lock, docker, history, task, mtime>>
    /\ ManagerUnchanged

\* a timeout test that never gives up
TimedOut_never(info, at) == FALSE

\* elapsed > info["timeout"]
TimedOut(info, at) == at - info.start_time > info.timeout

\* health_check_loop, one model of the round: it is completed when its startup
\* timed out or when its endpoint answered healthy
HealthCheck ==
    /\ health.pc = "check"
    /\ \E m \in health.todo, is_healthy \in BOOLEAN :
         health' = [health EXCEPT
                      !.todo = @ \ {m},
                      !.completed = IF TimedOut(starting_models[m], mtime) \/ is_healthy
                                    THEN @ \cup {m} ELSE @]
    /\ UNCHANGED <<starting_models, starting_lock, cache, cache_lock, docker, history, task,
                   mtime>>
    /\ ManagerUnchanged

\* health_check_loop: del _starting_models[model_id] for the completed models,
\* and the end of the with block
HealthRemove ==
    /\ health.pc = "check"
    /\ health.todo = {}
    /\ starting_models' = WithoutModels(health.completed)
    /\ starting_lock' = "free"
    /\ health' = [pc |-> "sleep", todo |-> {}, completed |-> {}]
    /\ UNCHANGED <<cache, cache_lock, docker, history, task, mtime>>
    /\ ManagerUnchanged

InitManager == InitStorage /\ ExecIdle /\ LoaderIdle /\ ServicesIdle


StartBeginAny(c) == StartBegin(c, ManagerModels)
StopBeginAny(c) == StopBegin(c, ManagerModels)

\* start, stop and list requests, and the clock
NextManager ==
    \/ ManagerTick
    \/ \E c \in Coroutines :
        \/ StartBeginAny(c)
        \/ StartInvalidate(c)
        \/ StartStatus(c)
        \/ StartRm(c)
        \/ StartLaunch(c)
        \/ StartRegister(c)
        \/ StopBeginAny(c)
        \/ StopStatus(c)
        \/ StopCommand(c)
        \/ StopRm(c)
        \/ StopUnregister(c)
        \/ ListBegin(c)
        \/ ListAcquire(c)
        \/ ListDocker(c)
        \/ ListModels(c)
        \/ ListStore(c)
        \/ TaskEnds(c)

SpecManager == InitManager /\ [][NextManager]_vars

\* health_check_loop beside start and stop requests
HealthLoop == HealthSleep \/ HealthAcquire \/ HealthCheck \/ HealthRemove

NextHealth ==
    \/ ManagerTick
    \/ HealthSleep
    \/ HealthAcquire
    \/ HealthCheck
    \/ HealthRemove
    \/ \E c \in Coroutines :
        \/ StartBeginAny(c)
        \/ StartInvalidate(c)
        \/ StartStatus(c)
        \/ StartRm(c)
        \/ StartLaunch(c)
        \/ StartRegister(c)
        \/ StopBeginAny(c)
        \/ StopStatus(c)
        \/ StopCommand(c)
        \/ StopRm(c)
        \/ StopUnregister(c)
        \/ TaskEnds(c)

\* the health task created by lifespan keeps being scheduled by the event loop
SpecHealth == InitManager /\ [][NextHealth]_vars /\ WF_vars(HealthLoop)

\* C38: every model in the startup tracker is eventually out of it, the health
\* check loop running: it is removed once its endpoint is healthy or once the
\* time since its registration exceeds its startup timeout.
C38_StartingEventuallyRemoved ==
    \A m \in ManagerModels :
        (m \in DOMAIN starting_models) ~> (m \notin DOMAIN starting_models)

\* the loop found the startup of a tracked model timed out
C38_Witness ==
    /\ health.pc = "check"
    /\ \E m \in health.completed \cap DOMAIN starting_models :
          TimedOut(starting_models[m], mtime)

\* C39: once a start_model or stop_model request has returned, no list_models
\* request returns a status list computed from the container state that docker
\* reported before the change made by that start or stop.
C39_ListNeverStaleAfterReturn ==
    [][\A c \in Coroutines :
          (task[c].pc # "done" /\ task'[c].pc = "done" /\ task'[c].op = "list")
          => task'[c].returned.version >= history.settled]_vars

\* C40: no launch command is issued for a model whose container exists already
\* (so at most one until it is stopped, and a start of a running model is a
\* no-op), and a model enters the startup tracker only from a start_model
\* request whose launch command succeeded.
C40_OneLaunchPerModel ==
    [][/\ \A c \in Coroutines :
             (task[c].pc = "s_launch" /\ task'[c].pc # "s_launch")
             => docker[task[c].model] = "not_created"
       /\ \A m \in ManagerModels :
             (m \in DOMAIN starting_models' /\
                (m \notin DOMAIN starting_models \/ starting_models'[m] # starting_models[m]))
             => \E c \in Coroutines :
                   task[c].pc = "s_register" /\ task[c].model = m /\ task[c].launched]_vars

====
